---- MODULE Spec2Model ----
(***************************************************************************)
(* Verification model of the MFRC522 contactless-card driver               *)
(* (Code/C_Code/24.1.1_RFID): the transaction primitive MFRC522_ToCard,    *)
(* the card protocol operations built on it, and the interactive session   *)
(* that drives them.                                                       *)
(*                                                                         *)
(* The chip is the environment.  Every value the driver reads from a chip  *)
(* register is an input: one "chip script" per transaction says what the   *)
(* interrupt, error, FIFO-level, control and FIFO-data registers return.   *)
(* The driver functions are operators of their arguments and of the chip   *)
(* scripts of the transactions they issue; the session is a state machine  *)
(* whose steps are the driver calls.                                       *)
(***************************************************************************)
EXTENDS Integers, Sequences, FiniteSets, TLC

VARIABLES
  tc,     \* one call of MFRC522_ToCard: its inputs and, once made, its result
  pr,     \* one call of a card protocol operation: inputs and result
  s,      \* the interactive session: position and locals of main, scan_loop
          \* and the MFRC522_Debug_* functions
  ev,     \* the last driver call of the session: operation, block, return
  auth    \* history: the sector whose authentication is in force, if any

vars == <<tc, pr, s, ev, auth>>
sessVars == <<s, ev, auth>>

(***************************************************************************)
(* Program constants (include/mfrc522.h, src/mfrc522/mfrc522.c).           *)
(***************************************************************************)
MI_OK == 0
MI_NOTAGERR == -1
MI_ERR == -2

PCD_IDLE == 0
PCD_AUTHENT == 14
PCD_TRANSCEIVE == 12

PICC_REQIDL == 38
PICC_REQALL == 82
PICC_CMD_WUPA == 82
PICC_ANTICOLL == 147
PICC_SElECTTAG == 147
PICC_AUTHENT1A == 96
PICC_READ == 48
PICC_WRITE == 160

MFRC522_MAX_LEN == 16

\* i = 2000 before the poll loop of MFRC522_ToCard
PollBudget == 2000
\* the bits of the error register MFRC522_ToCard looks at (0x1B)
ErrorMask == 27
\* the timer-expired bit of the interrupt register (0x01)
TimerIRq == 1
\* the ACK nibble of a MIFARE write (0x0A) and its bit count
AckNibble == 10
AckBits == 4

(***************************************************************************)
(* 8-bit and 16-bit arithmetic.                                            *)
(***************************************************************************)
RECURSIVE BitAnd(_, _)
BitAnd(a, b) ==
  IF a = 0 \/ b = 0 THEN 0
  ELSE (a % 2) * (b % 2) + 2 * BitAnd(a \div 2, b \div 2)

U16(x) == x % 65536
U8(x) == x % 256

\* an int converted to char, which is signed or unsigned depending on the
\* target
ToChar(x, signed) == IF signed THEN ((x + 128) % 256) - 128 ELSE x % 256

\* Buffers are sequences of bytes: C index j is TLA+ index j + 1.

(***************************************************************************)
(* The chip's side of one transaction.  irq describes the values the       *)
(* interrupt register returns on successive reads: lead for the first      *)
(* quiet reads, val from then on.                                          *)
(***************************************************************************)
ReadIrq(irq, j) == IF j <= irq.quiet THEN irq.lead ELSE irq.val

\* the byte the k-th read of the FIFO data register returns (0 when empty)
FifoByte(chip, k) == IF k <= Len(chip.fifo) THEN chip.fifo[k] ELSE 0

(***************************************************************************)
(* MFRC522_ToCard                                                          *)
(***************************************************************************)
IrqEn(command) ==
  IF command = PCD_AUTHENT THEN 18          \* 0x12
  ELSE IF command = PCD_TRANSCEIVE THEN 119 \* 0x77
  ELSE 0

WaitIRq(command) ==
  IF command = PCD_AUTHENT THEN 16          \* 0x10
  ELSE IF command = PCD_TRANSCEIVE THEN 48  \* 0x30
  ELSE 0

\* n & 0x01 or n & waitIRq: the interrupt value n ends the poll loop
IrqFlagged(command, n) ==
  BitAnd(n, TimerIRq) # 0 \/ BitAnd(n, WaitIRq(command)) # 0

\* PollLoop with a loop test that lacks !(n & 0x01)
PollLoop_IgnoresTimer(command, irq) ==
  LET leadEnds == BitAnd(irq.lead, WaitIRq(command)) # 0
      valEnds == BitAnd(irq.val, WaitIRq(command)) # 0
      Continues(j) ==
        /\ U16(PollBudget - j) # 0
        /\ ~(IF j <= irq.quiet THEN leadEnds ELSE valEnds)
      last == CHOOSE j \in 1..PollBudget :
                /\ ~Continues(j)
                /\ \A m \in 1..(j - 1) : Continues(m)
  IN  [polls |-> last, i |-> U16(PollBudget - last), n |-> ReadIrq(irq, last)]

\* do { n = read(COMM_IRQ); i--; } while ((i != 0) && !(n & 0x01) && !(n & waitIRq));
\* the loop is left after the first poll j whose test fails; i has then been
\* decremented j times, so the test of poll PollBudget always fails
PollLoop(command, irq) ==
  LET leadEnds == IrqFlagged(command, irq.lead)
      valEnds == IrqFlagged(command, irq.val)
      Continues(j) ==
        /\ U16(PollBudget - j) # 0
        /\ ~(IF j <= irq.quiet THEN leadEnds ELSE valEnds)
      last == CHOOSE j \in 1..PollBudget :
                /\ ~Continues(j)
                /\ \A m \in 1..(j - 1) : Continues(m)
  IN  [polls |-> last, i |-> U16(PollBudget - last), n |-> ReadIrq(irq, last)]

\* interrupt traces that end the poll loop within the first two polls
ShortTraces ==
  {[lead |-> 0, quiet |-> 0, val |-> v] : v \in {1, 16, 32, 48, 17, 49, 68, 69}}
  \cup {[lead |-> 68, quiet |-> 1, val |-> v] : v \in {1, 16, 32}}
  \cup {[lead |-> 32, quiet |-> 1, val |-> 17]}

\* interrupt traces that stay quiet up to the end of the budget
LongTraces ==
  {[lead |-> 68, quiet |-> q, val |-> v] :
     q \in {PollBudget - 2, PollBudget - 1, PollBudget}, v \in {1, 16, 32}}

\* a flag within the first two polls: idle/rx, timer, both after a quiet poll
ProtoTraces ==
  {[lead |-> 0, quiet |-> 0, val |-> 16], [lead |-> 0, quiet |-> 0, val |-> 1],
   [lead |-> 68, quiet |-> 1, val |-> 17]}

\* no flag within the budget
SilentTrace == [lead |-> 68, quiet |-> PollBudget, val |-> 68]

ToCardCommands == {PCD_AUTHENT, PCD_TRANSCEIVE, PCD_IDLE}

\* ErrBits with a mask that has only the collision bit (0x08)
ErrBits_CollisionOnly(err) == BitAnd(err, 8)

\* the bits of the error register that make the transaction an error
ErrBits(err) == BitAnd(err, ErrorMask)

\* status of a transaction whose poll loop ended with i # 0 and a clean
\* error register
IrqStatus(command, n) ==
  IF BitAnd(BitAnd(n, IrqEn(command)), TimerIRq) # 0 THEN MI_NOTAGERR ELSE MI_OK

\* *backLen as computed from the FIFO level and the control register
BackLen(fifoLevel, control) ==
  LET lastBits == BitAnd(control, 7)
  IN  IF lastBits # 0 THEN U16((fifoLevel - 1) * 8 + lastBits)
      ELSE U16(fifoLevel * 8)

\* DrainCount without the clamp to MFRC522_MAX_LEN
DrainCount_Unclamped(fifoLevel) ==
  IF fifoLevel = 0 THEN 1 ELSE fifoLevel

\* the number of bytes drained from the FIFO
DrainCount(fifoLevel) ==
  IF fifoLevel = 0 THEN 1
  ELSE IF fifoLevel > MFRC522_MAX_LEN THEN MFRC522_MAX_LEN
  ELSE fifoLevel

\* the first len bytes of a buffer: the frame written to the FIFO
Frame(buf, len) == [k \in 1..len |-> buf[k]]

\* The result carries, besides the status and the out-parameters, what the
\* call did on the bus: the frame loaded into the FIFO, the number of polls,
\* whether the error register was read, and how many FIFO data bytes were
\* read.
AfterPoll(command, sendData, sendLen, backData, backLen, chip, loop) ==
  LET base == [status |-> MI_ERR, backData |-> backData, backLen |-> backLen,
               command |-> command, sent |-> Frame(sendData, sendLen),
               polls |-> loop.polls, i |-> loop.i, n |-> loop.n,
               errRead |-> FALSE, fifoReads |-> 0]
  IN  IF loop.i # 0
      THEN IF ErrBits(chip.err) = 0
           THEN LET status == IrqStatus(command, loop.n)
                IN  IF command = PCD_TRANSCEIVE
                    THEN LET cnt == DrainCount(chip.fifoLevel)
                         IN  [base EXCEPT
                                !.status = status,
                                !.errRead = TRUE,
                                !.backLen = BackLen(chip.fifoLevel, chip.control),
                                !.fifoReads = cnt,
                                !.backData =
                                   [k \in DOMAIN backData |->
                                      IF k <= cnt THEN FifoByte(chip, k)
                                      ELSE backData[k]]]
                    ELSE [base EXCEPT !.status = status, !.errRead = TRUE]
           ELSE [base EXCEPT !.status = MI_ERR, !.errRead = TRUE]
      ELSE base

MFRC522_ToCard(command, sendData, sendLen, backData, backLen, chip) ==
  AfterPoll(command, sendData, sendLen, backData, backLen, chip,
            PollLoop(command, chip.irq))

(***************************************************************************)
(* Chip behaviours explored for a single transaction.                      *)
(***************************************************************************)
ErrValues == {0, 1, 4, 8, 27}
FifoLevels == {0, 1, 2, 3, 16, 18, 64}
ControlValues == {0, 4, 5, 20}
FifoContents == {<<10>>, <<0, 1, 2>>}
\* every value the FIFO level register and the RxLastBits field can read
FifoLevelRange == 0..255
LastBitsRange == 0..7

ToCardChips ==
  [irq : ShortTraces, err : ErrValues, fifoLevel : FifoLevels,
   control : ControlValues, fifo : FifoContents]
  \cup [irq : LongTraces, err : {0, 8}, fifoLevel : {1}, control : {4},
        fifo : {<<10>>}]
  \cup [irq : {[lead |-> 0, quiet |-> 0, val |-> 16]}, err : {0},
        fifoLevel : FifoLevelRange, control : LastBitsRange,
        fifo : {<<0, 1, 2>>}]

\* the session variables while a single call is examined
SessionOff ==
  /\ s = [pc |-> "off"]
  /\ ev = [op |-> "none"]
  /\ auth = [valid |-> FALSE, sector |-> 0, selected |-> FALSE]

\* the caller's buffer and bit count before the call
CallerBuf == [k \in 1..18 |-> 160 + k]
CallerLen == 7
CallerSendLen == 4

NoResult == [status |-> MI_ERR, backData |-> CallerBuf, backLen |-> CallerLen,
             command |-> PCD_IDLE, sent |-> <<>>,
             polls |-> 0, i |-> 0, n |-> 0, errRead |-> FALSE, fifoReads |-> 0]

(***************************************************************************)
(* MFRC522_CalculateCRC.  crc is the chip's side: the divider-interrupt    *)
(* register reads without the CRC-done bit for the first quiet reads, and  *)
(* the result registers hold lo and hi.                                    *)
(***************************************************************************)
\* i = 0xFF before the poll loop of MFRC522_CalculateCRC
CrcBudget == 255

\* CrcPolls with a loop test that lacks (i != 0)
CrcPolls_NoBudget(crc) == crc.quiet + 1

\* polls of the divider-interrupt register until i is 0 or CRCIrq is read
CrcPolls(crc) ==
  LET Continues(j) == U8(CrcBudget - j) # 0 /\ j <= crc.quiet
  IN  CHOOSE j \in 1..CrcBudget :
        /\ ~Continues(j)
        /\ \A m \in 1..(j - 1) : Continues(m)

\* MFRC522_CalculateCRC storing the result registers high byte first
MFRC522_CalculateCRC_HighFirst(pIndata, len, crc) ==
  [polls |-> CrcPolls(crc), data |-> Frame(pIndata, len),
   resultL |-> crc.lo, resultM |-> crc.hi, out |-> <<crc.hi, crc.lo>>]

\* data: the bytes written to the FIFO; resultL, resultM: what the CRC
\* result registers read; out: pOutData[0], pOutData[1]
MFRC522_CalculateCRC(pIndata, len, crc) ==
  [polls |-> CrcPolls(crc), data |-> Frame(pIndata, len),
   resultL |-> crc.lo, resultM |-> crc.hi, out |-> <<crc.lo, crc.hi>>]

RECURSIVE BitXor(_, _)
BitXor(a, b) ==
  IF a = 0 THEN b
  ELSE IF b = 0 THEN a
  ELSE ((a + b) % 2) + 2 * BitXor(a \div 2, b \div 2)

\* buf with the byte at C index idx set to val
Put(buf, idx, val) == [buf EXCEPT ![idx + 1] = val]

\* buf with the bytes of src stored from C index idx
PutAll(buf, idx, src) ==
  [k \in DOMAIN buf |->
     IF k > idx /\ k <= idx + Len(src) THEN src[k - idx] ELSE buf[k]]

(***************************************************************************)
(* Card protocol operations.  Each result carries the return value, the    *)
(* caller-visible buffer, the MFRC522_ToCard calls made (in order), and    *)
(* for MFRC522_Auth whether and with what value the status-2 register was  *)
(* read, the value written to the bit-framing register before the         *)
(* transaction (-1: none), and the MFRC522_CalculateCRC calls made (in     *)
(* order).  garbage is the value an uninitialized uint16_t local holds.    *)
(***************************************************************************)
OpResult(ret, buf, calls) ==
  [ret |-> ret, buf |-> buf, calls |-> calls, status2Read |-> FALSE, status2 |-> 0,
   bitFraming |-> -1, crcs |-> <<>>]

\* res of an operation that wrote val to the bit-framing register first
WithBitFraming(res, val) == [res EXCEPT !.bitFraming = val]

\* res of an operation that made the MFRC522_CalculateCRC calls crcs
WithCrcs(res, crcs) == [res EXCEPT !.crcs = crcs]

\* MFRC522_Request returning MI_ERR for every failed transaction
MFRC522_Request_Collapsing(reqMode, TagType, garbage, chip) ==
  LET buf == Put(TagType, 0, reqMode)
      r == MFRC522_ToCard(PCD_TRANSCEIVE, buf, 1, buf, garbage, chip)
      ret == IF r.status # MI_OK \/ r.backLen # 16 THEN MI_ERR ELSE MI_OK
  IN  WithBitFraming(OpResult(ret, r.backData, <<r>>), 7)

\* MFRC522_Request without the test of backBits
MFRC522_Request_AnyLength(reqMode, TagType, garbage, chip) ==
  LET buf == Put(TagType, 0, reqMode)
      r == MFRC522_ToCard(PCD_TRANSCEIVE, buf, 1, buf, garbage, chip)
  IN  WithBitFraming(OpResult(r.status, r.backData, <<r>>), 7)

MFRC522_Request(reqMode, TagType, garbage, chip) ==
  LET buf == Put(TagType, 0, reqMode)
      r == MFRC522_ToCard(PCD_TRANSCEIVE, buf, 1, buf, garbage, chip)
      ret == IF r.status # MI_OK THEN r.status
             ELSE IF r.backLen # 16 THEN MI_ERR
             ELSE MI_OK
  IN  WithBitFraming(OpResult(ret, r.backData, <<r>>), 7)

\* MFRC522_Anticoll with a checksum over the first 3 bytes only
MFRC522_Anticoll_ThreeBytes(serNum, garbage, chip) ==
  LET buf == Put(Put(serNum, 0, PICC_ANTICOLL), 1, 32)
      r == MFRC522_ToCard(PCD_TRANSCEIVE, buf, 2, buf, garbage, chip)
      b == r.backData
      ret == IF r.status = MI_OK
             THEN (IF BitXor(BitXor(b[1], b[2]), b[3]) # b[5] THEN MI_ERR ELSE MI_OK)
             ELSE r.status
  IN  WithBitFraming(OpResult(ret, b, <<r>>), 0)

MFRC522_Anticoll(serNum, garbage, chip) ==
  LET buf == Put(Put(serNum, 0, PICC_ANTICOLL), 1, 32)
      r == MFRC522_ToCard(PCD_TRANSCEIVE, buf, 2, buf, garbage, chip)
      b == r.backData
      serNumCheck == BitXor(BitXor(BitXor(b[1], b[2]), b[3]), b[4])
      ret == IF r.status = MI_OK
             THEN (IF serNumCheck # b[5] THEN MI_ERR ELSE MI_OK)
             ELSE r.status
  IN  WithBitFraming(OpResult(ret, b, <<r>>), 0)

\* MFRC522_SelectTag without the test of recvBits
MFRC522_SelectTag_AnyLength(serNum, garbage, crc, chip) ==
  LET b0 == PutAll(Put(Put([k \in 1..32 |-> 0], 0, PICC_SElECTTAG), 1, 112), 2, serNum)
      c == MFRC522_CalculateCRC(b0, 7, crc)
      buffer == PutAll(b0, 7, c.out)
      r == MFRC522_ToCard(PCD_TRANSCEIVE, buffer, 9, buffer, garbage, chip)
      size == IF r.status = MI_OK THEN r.backData[1] ELSE 0
  IN  WithCrcs(OpResult(size, r.backData, <<r>>), <<c>>)

MFRC522_SelectTag(serNum, garbage, crc, chip) ==
  LET b0 == PutAll(Put(Put([k \in 1..32 |-> 0], 0, PICC_SElECTTAG), 1, 112), 2, serNum)
      c == MFRC522_CalculateCRC(b0, 7, crc)
      buffer == PutAll(b0, 7, c.out)
      r == MFRC522_ToCard(PCD_TRANSCEIVE, buffer, 9, buffer, garbage, chip)
      size == IF r.status = MI_OK /\ r.backLen = 24 THEN r.backData[1] ELSE 0
  IN  WithCrcs(OpResult(size, r.backData, <<r>>), <<c>>)

\* the crypto-session flag MFCrypto1On (bit 3) of a status-2 register value
Crypto1On(status2) == BitAnd(status2, 8) # 0

\* MFRC522_Auth with the card serial number put before the key
MFRC522_Auth_UidFirst(authMode, BlockAddr, Sectorkey, serNum, garbage, chip, status2) ==
  LET b0 == Put(Put([k \in 1..12 |-> 0], 0, authMode), 1, BlockAddr)
      buff == PutAll(PutAll(b0, 2, SubSeq(serNum, 1, 4)), 6, Sectorkey)
      r == MFRC522_ToCard(PCD_AUTHENT, buff, 12, buff, garbage, chip)
      ret == IF r.status # MI_OK \/ ~Crypto1On(status2) THEN MI_ERR ELSE r.status
  IN  [OpResult(ret, r.backData, <<r>>) EXCEPT
         !.status2Read = (r.status = MI_OK),
         !.status2 = IF r.status = MI_OK THEN status2 ELSE 0]

MFRC522_Auth(authMode, BlockAddr, Sectorkey, serNum, garbage, chip, status2) ==
  LET b0 == Put(Put([k \in 1..12 |-> 0], 0, authMode), 1, BlockAddr)
      buff == PutAll(PutAll(b0, 2, Sectorkey), 8, SubSeq(serNum, 1, 4))
      r == MFRC522_ToCard(PCD_AUTHENT, buff, 12, buff, garbage, chip)
      ret == IF r.status # MI_OK \/ ~Crypto1On(status2) THEN MI_ERR ELSE r.status
  IN  [OpResult(ret, r.backData, <<r>>) EXCEPT
         !.status2Read = (r.status = MI_OK),
         !.status2 = IF r.status = MI_OK THEN status2 ELSE 0]

\* MFRC522_Read without the test of unLen
MFRC522_Read_AnyLength(blockAddr, recvData, garbage, crc, chip) ==
  LET b0 == Put(Put(recvData, 0, PICC_READ), 1, blockAddr)
      c == MFRC522_CalculateCRC(b0, 2, crc)
      buf == PutAll(b0, 2, c.out)
      r == MFRC522_ToCard(PCD_TRANSCEIVE, buf, 4, buf, garbage, chip)
      ret == IF r.status # MI_OK THEN MI_ERR ELSE r.backLen
  IN  WithCrcs(OpResult(ret, r.backData, <<r>>), <<c>>)

MFRC522_Read(blockAddr, recvData, garbage, crc, chip) ==
  LET b0 == Put(Put(recvData, 0, PICC_READ), 1, blockAddr)
      c == MFRC522_CalculateCRC(b0, 2, crc)
      buf == PutAll(b0, 2, c.out)
      r == MFRC522_ToCard(PCD_TRANSCEIVE, buf, 4, buf, garbage, chip)
      ret == IF r.status # MI_OK \/ r.backLen # 144 THEN MI_ERR ELSE r.backLen
  IN  WithCrcs(OpResult(ret, r.backData, <<r>>), <<c>>)

\* the test both phases of MFRC522_Write make on their transaction
WriteRefused(r) ==
  r.status # MI_OK \/ r.backLen # AckBits \/ BitAnd(r.backData[1], 15) # AckNibble

\* the ERROR: exit of MFRC522_Write
WriteError(recvBits, buff) ==
  IF recvBits = 4 THEN BitAnd(buff[1], 15) ELSE MI_ERR

\* the command phase: buff = { PICC_WRITE, blockAddr, crc, crc }
WriteCommandCrc(blockAddr, crc) ==
  MFRC522_CalculateCRC(Put(Put([k \in 1..18 |-> 0], 0, PICC_WRITE), 1, blockAddr),
                       2, crc)

WriteCommand(blockAddr, garbage, crc, chip) ==
  LET b0 == Put(Put([k \in 1..18 |-> 0], 0, PICC_WRITE), 1, blockAddr)
      buff == PutAll(b0, 2, WriteCommandCrc(blockAddr, crc).out)
  IN  MFRC522_ToCard(PCD_TRANSCEIVE, buff, 4, buff, garbage, chip)

\* the data phase: the 16 bytes and their CRC, sent from the same buffer;
\* recvBits still holds what the command phase left in it
WriteDataCrc(writeData, r1, crc) ==
  MFRC522_CalculateCRC(PutAll(r1.backData, 0, writeData), 16, crc)

WriteData(writeData, r1, crc, chip) ==
  LET b0 == PutAll(r1.backData, 0, writeData)
      buff == PutAll(b0, 16, WriteDataCrc(writeData, r1, crc).out)
  IN  MFRC522_ToCard(PCD_TRANSCEIVE, buff, 18, buff, r1.backLen, chip)

\* the ERROR: exit of MFRC522_Write after the transaction r
WriteFails(r, calls) == OpResult(WriteError(r.backLen, r.backData), r.backData, calls)

\* MFRC522_Write from the end of its command phase r1 on
AfterCommand(r1, r2) ==
  IF WriteRefused(r1) THEN WriteFails(r1, <<r1>>)
  ELSE IF WriteRefused(r2) THEN WriteFails(r2, <<r1, r2>>)
  ELSE OpResult(MI_OK, r2.backData, <<r1, r2>>)

WritePhases(r1, writeData, crc2, chip2) ==
  AfterCommand(r1, WriteData(writeData, r1, crc2, chip2))

\* res of MFRC522_Write with its MFRC522_CalculateCRC calls: one for each
\* phase entered
WriteCrcs(res, blockAddr, writeData, crc1, crc2) ==
  WithCrcs(res, IF Len(res.calls) = 1
                THEN <<WriteCommandCrc(blockAddr, crc1)>>
                ELSE <<WriteCommandCrc(blockAddr, crc1),
                       WriteDataCrc(writeData, res.calls[1], crc2)>>)

\* MFRC522_Write with an address check in front of the command phase
MFRC522_Write_Guarded(blockAddr, writeData, garbage, crc1, chip1, crc2, chip2) ==
  IF blockAddr = 0 \/ blockAddr % 4 = 3
  THEN OpResult(MI_ERR, <<>>, <<>>)
  ELSE WriteCrcs(WritePhases(WriteCommand(blockAddr, garbage, crc1, chip1),
                             writeData, crc2, chip2),
                 blockAddr, writeData, crc1, crc2)

\* MFRC522_Write entering the data phase whatever the command phase gave
MFRC522_Write_DataAlways(blockAddr, writeData, garbage, crc1, chip1, crc2, chip2) ==
  LET r1 == WriteCommand(blockAddr, garbage, crc1, chip1)
      r2 == WriteData(writeData, r1, crc2, chip2)
  IN  WithCrcs(IF WriteRefused(r2) THEN WriteFails(r2, <<r1, r2>>)
               ELSE OpResult(MI_OK, r2.backData, <<r1, r2>>),
               <<WriteCommandCrc(blockAddr, crc1), WriteDataCrc(writeData, r1, crc2)>>)

MFRC522_Write(blockAddr, writeData, garbage, crc1, chip1, crc2, chip2) ==
  WriteCrcs(WritePhases(WriteCommand(blockAddr, garbage, crc1, chip1),
                        writeData, crc2, chip2),
            blockAddr, writeData, crc1, crc2)

PICC_HALT == 80

MFRC522_Halt(garbage, crc, chip) ==
  LET b0 == Put(Put([k \in 1..4 |-> 0], 0, PICC_HALT), 1, 0)
      c == MFRC522_CalculateCRC(b0, 2, crc)
      buff == PutAll(b0, 2, c.out)
      r == MFRC522_ToCard(PCD_TRANSCEIVE, buff, 4, buff, garbage, chip)
  IN  WithCrcs(OpResult(0, r.backData, <<r>>), <<c>>)

(***************************************************************************)
(* Chip behaviours and arguments explored for the protocol operations.     *)
(***************************************************************************)
\* UID DE AD BE EF and its XOR checksum 0x22
CardUid == <<222, 173, 190, 239, 34>>
BlockData == [k \in 1..16 |-> 64 + k]

\* what the card put in the FIFO: 4-bit ACK and NAKs, one full byte, ATQA,
\* SAK (0x08 and 0x00), UID with good and bad checksum, a block with CRC
ProtoReplies ==
  {[fifoLevel |-> 1, control |-> 4, fifo |-> <<v>>] : v \in {10, 0, 5, 15, 26}}
  \cup {[fifoLevel |-> 1, control |-> 0, fifo |-> <<10>>],
        [fifoLevel |-> 2, control |-> 0, fifo |-> <<4, 0>>],
        [fifoLevel |-> 3, control |-> 0, fifo |-> <<8, 182, 221>>],
        [fifoLevel |-> 3, control |-> 0, fifo |-> <<0, 254, 81>>],
        [fifoLevel |-> 5, control |-> 0, fifo |-> CardUid],
        [fifoLevel |-> 5, control |-> 0, fifo |-> Put(CardUid, 4, 35)],
        [fifoLevel |-> 18, control |-> 0, fifo |-> BlockData \o <<55, 73>>]}

ProtoChips ==
  {[irq |-> t, err |-> e, fifoLevel |-> r.fifoLevel, control |-> r.control,
    fifo |-> r.fifo] : t \in ProtoTraces, e \in {0, 8}, r \in ProtoReplies}
  \cup {[irq |-> SilentTrace, err |-> 0, fifoLevel |-> 1, control |-> 4,
         fifo |-> <<10>>]}

\* the CRC coprocessor: done at the first poll, or not done within the budget
CrcChips == {[quiet |-> 0, lo |-> 18, hi |-> 52],
             [quiet |-> CrcBudget, lo |-> 205, hi |-> 7]}
StackGarbage == {0, 4}
Status2Values == {0, 8}
DefaultKey == [k \in 1..6 |-> 255]

\* block addresses: manufacturer block, data blocks, sector trailers
ProtoBlocks == {0, 1, 3, 4, 7, 62, 63}
\* 16-byte payloads: all zero (clean), first byte 0x0A, first byte 0x35
Payloads ==
  {[k \in 1..16 |-> 0], [k \in 1..16 |-> IF k = 1 THEN 10 ELSE k],
   [k \in 1..16 |-> IF k = 1 THEN 53 ELSE 0]}

NoOut == OpResult(MI_ERR, <<>>, <<>>)

InitProto ==
  /\ tc = [pc |-> "off"]
  /\ SessionOff
  /\ pr \in [pc : {"call"}, op : {"Request", "Anticoll", "SelectTag", "Halt"},
             blockAddr : {0}, data : {<<>>}, out : {NoOut}]
       \cup [pc : {"call"}, op : {"Auth", "Read"},
             blockAddr : ProtoBlocks, data : {<<>>}, out : {NoOut}]
       \cup [pc : {"call"}, op : {"Write"},
             blockAddr : ProtoBlocks, data : Payloads, out : {NoOut}]

Returned(out) == pr' = [pr EXCEPT !.pc = "done", !.out = out]

CallRequest ==
  /\ pr.pc = "call" /\ pr.op = "Request"
  /\ \E g \in StackGarbage, chip \in ProtoChips :
       Returned(MFRC522_Request(PICC_REQIDL, [k \in 1..16 |-> 0], g, chip))
  /\ UNCHANGED <<tc, sessVars>>

\* 4-byte UIDs, the 5-byte replies that carry their XOR checksum, and
\* the replies that differ from one of those in a single bit
Uids == {<<222, 173, 190, 239>>, <<0, 0, 0, 0>>, <<255, 1, 128, 64>>}
Checksum(uid) == BitXor(BitXor(BitXor(uid[1], uid[2]), uid[3]), uid[4])
PassingReplies == {uid \o <<Checksum(uid)>> : uid \in Uids}
Pow2(n) == IF n = 0 THEN 1 ELSE IF n = 1 THEN 2 ELSE IF n = 2 THEN 4
           ELSE IF n = 3 THEN 8 ELSE IF n = 4 THEN 16 ELSE IF n = 5 THEN 32
           ELSE IF n = 6 THEN 64 ELSE 128
SingleBitFlips(reply) ==
  {[reply EXCEPT ![k] = BitXor(reply[k], Pow2(bit))] : k \in 1..5, bit \in 0..7}
FlippedReplies == UNION {SingleBitFlips(reply) : reply \in PassingReplies}

\* replies of fewer than 5 bytes: the byte 0x20, the first 2 bytes of
\* CardUid, 4 bytes whose XOR is 0, and 3 bytes
ShortReplies == {<<32>>, <<222, 173>>, <<1, 2, 3, 0>>, <<222, 173, 190>>, <<7>>}

\* a card answering the anti-collision command with 5 full bytes, or with
\* fewer
AnticollChips ==
  {[irq |-> [lead |-> 0, quiet |-> 0, val |-> 32], err |-> 0,
    fifoLevel |-> Len(reply), control |-> 0, fifo |-> reply] :
      reply \in PassingReplies \cup FlippedReplies \cup ShortReplies}

\* the caller's card id before the call: CardID as main() initializes it,
\* or the identifier an earlier call left in it
CardIds == {[k \in 1..5 |-> 0], CardUid}

CallAnticoll ==
  /\ pr.pc = "call" /\ pr.op = "Anticoll"
  /\ \E g \in StackGarbage, chip \in ProtoChips \cup AnticollChips, id \in CardIds :
       Returned(MFRC522_Anticoll(id, g, chip))
  /\ UNCHANGED <<tc, sessVars>>

CallSelectTag ==
  /\ pr.pc = "call" /\ pr.op = "SelectTag"
  /\ \E g \in StackGarbage, crc \in CrcChips, chip \in ProtoChips :
       Returned(MFRC522_SelectTag(CardUid, g, crc, chip))
  /\ UNCHANGED <<tc, sessVars>>

CallAuth ==
  /\ pr.pc = "call" /\ pr.op = "Auth"
  /\ \E g \in StackGarbage, chip \in ProtoChips, status2 \in Status2Values :
       Returned(MFRC522_Auth(PICC_AUTHENT1A, pr.blockAddr, DefaultKey, CardUid,
                             g, chip, status2))
  /\ UNCHANGED <<tc, sessVars>>

CallRead ==
  /\ pr.pc = "call" /\ pr.op = "Read"
  /\ \E g \in StackGarbage, crc \in CrcChips, chip \in ProtoChips :
       Returned(MFRC522_Read(pr.blockAddr, [k \in 1..16 |-> 0], g, crc, chip))
  /\ UNCHANGED <<tc, sessVars>>

\* the chip's behaviour in the data phase matters only when there is one
CallWrite ==
  /\ pr.pc = "call" /\ pr.op = "Write"
  /\ \E g \in StackGarbage, crc1 \in CrcChips, chip1 \in ProtoChips :
       \E chip2 \in IF WriteRefused(WriteCommand(pr.blockAddr, g, crc1, chip1))
                    THEN {chip1} ELSE ProtoChips :
         \E crc2 \in CrcChips :
           Returned(MFRC522_Write(pr.blockAddr, pr.data, g, crc1, chip1, crc2, chip2))
  /\ UNCHANGED <<tc, sessVars>>

CallHalt ==
  /\ pr.pc = "call" /\ pr.op = "Halt"
  /\ \E g \in StackGarbage, crc \in CrcChips, chip \in ProtoChips :
       Returned(MFRC522_Halt(g, crc, chip))
  /\ UNCHANGED <<tc, sessVars>>

NextProto ==
  \/ CallRequest \/ CallAnticoll \/ CallSelectTag
  \/ CallAuth \/ CallRead \/ CallWrite \/ CallHalt

SpecProto == InitProto /\ [][NextProto]_vars

(***************************************************************************)
(* Register-level operations.  An operation is the sequence of bus         *)
(* accesses it makes; a register that is read holds the value given as     *)
(* argument.                                                               *)
(***************************************************************************)
MFRC522_REG_COMMAND == 1
MFRC522_REG_STATUS2 == 8
MFRC522_REG_MODE == 17
MFRC522_REG_TX_CONTROL == 20
MFRC522_REG_TX_AUTO == 21
MFRC522_REG_RX_SELL == 23
MFRC522_REG_RF_CFG == 38
MFRC522_REG_T_MODE == 42
MFRC522_REG_T_PRESCALER == 43
MFRC522_REG_T_RELOAD_H == 44
MFRC522_REG_T_RELOAD_L == 45
PCD_RESETPHASE == 15
\* the probe value written to and expected from the prescaler register
PrescalerProbe == 62
\* the two transmitter-enable bits of the TX control register
TxEnableBits == 3
\* 'A' and 'B'
TypeA == 65
TypeB == 66

MFRC522_WriteRegister(reg, val) == [op |-> "write", reg |-> reg, val |-> val]
MFRC522_ReadRegister(reg, val) == [op |-> "read", reg |-> reg, val |-> val]

BitOr(a, b) == a + b - BitAnd(a, b)
\* val & (~mask), passed on as uint8_t
BitClear(val, mask) == BitAnd(val, 255 - mask)

\* MFRC522_SetBitMask writing the mask alone
MFRC522_SetBitMask_Overwrites(reg, mask, cur) ==
  <<MFRC522_ReadRegister(reg, cur), MFRC522_WriteRegister(reg, mask)>>

\* WriteRegister(reg, ReadRegister(reg) | mask)
MFRC522_SetBitMask(reg, mask, cur) ==
  <<MFRC522_ReadRegister(reg, cur), MFRC522_WriteRegister(reg, BitOr(cur, mask))>>

\* WriteRegister(reg, ReadRegister(reg) & (~mask))
MFRC522_ClearBitMask(reg, mask, cur) ==
  <<MFRC522_ReadRegister(reg, cur),
    MFRC522_WriteRegister(reg, BitClear(cur, mask))>>

\* temp = ReadRegister(TX_CONTROL); if (!(temp & 0x03)) SetBitMask(TX_CONTROL, 0x03)
MFRC522_AntennaOn(txControl) ==
  <<MFRC522_ReadRegister(MFRC522_REG_TX_CONTROL, txControl)>>
  \o (IF BitAnd(txControl, TxEnableBits) = 0
      THEN MFRC522_SetBitMask(MFRC522_REG_TX_CONTROL, TxEnableBits, txControl)
      ELSE <<>>)

MFRC522_AntennaOff(txControl) ==
  MFRC522_ClearBitMask(MFRC522_REG_TX_CONTROL, TxEnableBits, txControl)

MFRC522_Reset == <<MFRC522_WriteRegister(MFRC522_REG_COMMAND, PCD_RESETPHASE)>>

\* reset, first prescaler write and its read-back
SetupProbe(prescalerRead) ==
  MFRC522_Reset
  \o <<MFRC522_WriteRegister(MFRC522_REG_T_PRESCALER, PrescalerProbe),
       MFRC522_ReadRegister(MFRC522_REG_T_PRESCALER, prescalerRead)>>

\* the writes after the read-back, up to the call of MFRC522_AntennaOn
SetupProgram(Type, status2) ==
  <<MFRC522_WriteRegister(MFRC522_REG_T_MODE, 141),
    MFRC522_WriteRegister(MFRC522_REG_T_PRESCALER, 62),
    MFRC522_WriteRegister(MFRC522_REG_T_RELOAD_L, 30),
    MFRC522_WriteRegister(MFRC522_REG_T_RELOAD_H, 0),
    MFRC522_WriteRegister(MFRC522_REG_TX_AUTO, 64),
    MFRC522_WriteRegister(MFRC522_REG_MODE, 61)>>
  \o (IF Type = TypeA
      THEN MFRC522_ClearBitMask(MFRC522_REG_STATUS2, 8, status2)
           \o <<MFRC522_WriteRegister(MFRC522_REG_MODE, 61),
                MFRC522_WriteRegister(MFRC522_REG_RX_SELL, 134),
                MFRC522_WriteRegister(MFRC522_REG_RF_CFG, 127),
                MFRC522_WriteRegister(MFRC522_REG_T_RELOAD_L, 30),
                MFRC522_WriteRegister(MFRC522_REG_T_RELOAD_H, 0),
                MFRC522_WriteRegister(MFRC522_REG_T_MODE, 141),
                MFRC522_WriteRegister(MFRC522_REG_T_PRESCALER, 62)>>
      ELSE <<>>)

\* MFRC522_Setup going on after a failed read-back
MFRC522_Setup_GoesOn(Type, prescalerRead, status2, txControl, charSigned) ==
  [ret |-> IF ToChar(prescalerRead, charSigned) # PrescalerProbe THEN -1 ELSE 0,
   log |-> SetupProbe(prescalerRead) \o SetupProgram(Type, status2)
           \o MFRC522_AntennaOn(txControl)]

\* ret: the return value; log: the bus accesses made, in order.  test is a
\* char: the value read is converted before it is compared with 0x3E.
MFRC522_Setup(Type, prescalerRead, status2, txControl, charSigned) ==
  IF ToChar(prescalerRead, charSigned) # PrescalerProbe
  THEN [ret |-> -1, log |-> SetupProbe(prescalerRead)]
  ELSE [ret |-> 0,
        log |-> SetupProbe(prescalerRead) \o SetupProgram(Type, status2)
                \o MFRC522_AntennaOn(txControl)]

\* a driver call in the order of bus accesses: its command byte and status
DriverCall(op, res) ==
  [op |-> op, reg |-> res.calls[1].sent[1], val |-> res.ret]

\* MFRC522_Check calling MFRC522_Anticoll whatever the request returned
MFRC522_Check_AnticollAlways(id, status2, g1, chip1, g2, chip2) ==
  LET clear == MFRC522_ClearBitMask(MFRC522_REG_STATUS2, 8, status2)
      req == MFRC522_Request(PICC_CMD_WUPA, id, g1, chip1)
      anti == MFRC522_Anticoll(req.buf, g2, chip2)
  IN  [ret |-> anti.ret, buf |-> anti.buf,
       log |-> clear \o <<DriverCall("Request", req), DriverCall("Anticoll", anti)>>,
       checking |-> <<1, 0>>, Checking_Card |-> 0]

\* the rest of MFRC522_Check once MFRC522_Request has returned req:
\* Checking_Card = 0; if (status == MI_OK) status = MFRC522_Anticoll(id)
CheckAfterRequest(clear, req, anti) ==
  IF req.ret = MI_OK
  THEN [ret |-> anti.ret, buf |-> anti.buf,
        log |-> clear \o <<DriverCall("Request", req), DriverCall("Anticoll", anti)>>,
        checking |-> <<1, 0>>, Checking_Card |-> 0]
  ELSE [ret |-> req.ret, buf |-> req.buf,
        log |-> clear \o <<DriverCall("Request", req)>>,
        checking |-> <<1>>, Checking_Card |-> 0]

CheckRequested(clear, req, g2, chip2) ==
  CheckAfterRequest(clear, req, MFRC522_Anticoll(req.buf, g2, chip2))

\* log: the bus accesses and driver calls made, in order; checking: the
\* value of Checking_Card during each driver call; Checking_Card: its value
\* at the return
MFRC522_Check(id, status2, g1, chip1, g2, chip2) ==
  CheckRequested(MFRC522_ClearBitMask(MFRC522_REG_STATUS2, 8, status2),
                 MFRC522_Request(PICC_CMD_WUPA, id, g1, chip1), g2, chip2)

\* what register reg holds after the accesses of log when it held cur before
RegAfter(log, reg, cur) ==
  LET ws == {k \in DOMAIN log : log[k].op = "write" /\ log[k].reg = reg}
  IN  IF ws = {} THEN cur
      ELSE log[CHOOSE k \in ws : \A m \in ws : m <= k].val

(***************************************************************************)
(* The bus accesses of MFRC522_ToCard, in order.  before gives what the    *)
(* interrupt, FIFO-level and bit-framing registers read when the call      *)
(* starts; the bit-framing register keeps the value written to it.         *)
(***************************************************************************)
MFRC522_REG_COMM_IE_N == 2
MFRC522_REG_COMM_IRQ == 4
MFRC522_REG_ERROR == 6
MFRC522_REG_FIFO_DATA == 9
MFRC522_REG_CONTROL == 12
MFRC522_REG_FIFO_LEVEL == 10
MFRC522_REG_BIT_FRAMING == 13
\* the StartSend bit of the bit-framing register, also the flush bit of the
\* FIFO-level register and the Set1 bit of the interrupt register
StartSend == 128

\* ToCardPrelude issuing the command before the FIFO is loaded
ToCardPrelude_CommandFirst(command, sendData, sendLen, before) ==
  <<MFRC522_WriteRegister(MFRC522_REG_COMM_IE_N, BitOr(IrqEn(command), 128))>>
  \o MFRC522_ClearBitMask(MFRC522_REG_COMM_IRQ, StartSend, before.commIrq)
  \o MFRC522_SetBitMask(MFRC522_REG_FIFO_LEVEL, StartSend, before.fifoLevel)
  \o <<MFRC522_WriteRegister(MFRC522_REG_COMMAND, PCD_IDLE),
       MFRC522_WriteRegister(MFRC522_REG_COMMAND, command)>>
  \o [k \in 1..sendLen |->
        MFRC522_WriteRegister(MFRC522_REG_FIFO_DATA, sendData[k])]
  \o (IF command = PCD_TRANSCEIVE
      THEN MFRC522_SetBitMask(MFRC522_REG_BIT_FRAMING, StartSend,
                              before.bitFraming)
      ELSE <<>>)

\* the accesses up to the first poll
ToCardPrelude(command, sendData, sendLen, before) ==
  <<MFRC522_WriteRegister(MFRC522_REG_COMM_IE_N, BitOr(IrqEn(command), 128))>>
  \o MFRC522_ClearBitMask(MFRC522_REG_COMM_IRQ, StartSend, before.commIrq)
  \o MFRC522_SetBitMask(MFRC522_REG_FIFO_LEVEL, StartSend, before.fifoLevel)
  \o <<MFRC522_WriteRegister(MFRC522_REG_COMMAND, PCD_IDLE)>>
  \o [k \in 1..sendLen |->
        MFRC522_WriteRegister(MFRC522_REG_FIFO_DATA, sendData[k])]
  \o <<MFRC522_WriteRegister(MFRC522_REG_COMMAND, command)>>
  \o (IF command = PCD_TRANSCEIVE
      THEN MFRC522_SetBitMask(MFRC522_REG_BIT_FRAMING, StartSend,
                              before.bitFraming)
      ELSE <<>>)

\* the polls of the interrupt register
ToCardPolls(chip, res) ==
  [j \in 1..res.polls |->
     MFRC522_ReadRegister(MFRC522_REG_COMM_IRQ, ReadIrq(chip.irq, j))]

\* the accesses after ClearBitMask(BIT_FRAMING, 0x80)
ToCardReadout(chip, res) ==
  (IF res.errRead
   THEN <<MFRC522_ReadRegister(MFRC522_REG_ERROR, chip.err)>>
   ELSE <<>>)
  \o (IF res.fifoReads > 0
      THEN <<MFRC522_ReadRegister(MFRC522_REG_FIFO_LEVEL, chip.fifoLevel),
             MFRC522_ReadRegister(MFRC522_REG_CONTROL, chip.control)>>
           \o [k \in 1..res.fifoReads |->
                 MFRC522_ReadRegister(MFRC522_REG_FIFO_DATA, FifoByte(chip, k))]
      ELSE <<>>)

\* ToCardAfterPrelude clearing StartSend only when the budget was not used up
ToCardAfterPrelude_ClearInsideIf(prelude, chip, before, res) ==
  prelude \o ToCardPolls(chip, res)
  \o (IF res.i # 0
      THEN MFRC522_ClearBitMask(MFRC522_REG_BIT_FRAMING, StartSend,
             RegAfter(prelude, MFRC522_REG_BIT_FRAMING, before.bitFraming))
      ELSE <<>>)
  \o ToCardReadout(chip, res)

ToCardAfterPrelude(prelude, chip, before, res) ==
  prelude \o ToCardPolls(chip, res)
  \o MFRC522_ClearBitMask(MFRC522_REG_BIT_FRAMING, StartSend,
        RegAfter(prelude, MFRC522_REG_BIT_FRAMING, before.bitFraming))
  \o ToCardReadout(chip, res)

\* res: what MFRC522_ToCard returned for the same arguments and chip
ToCardAccesses(command, sendData, sendLen, chip, before, res) ==
  ToCardAfterPrelude(ToCardPrelude(command, sendData, sendLen, before),
                     chip, before, res)

(***************************************************************************)
(* MFRC522_Halt and MFRC522_Init as the session uses them.                 *)
(***************************************************************************)
\* MFRC522_Init returns what MFRC522_Setup returns (the bus is open)
MFRC522_Init(Type, prescalerRead, status2, txControl, charSigned) ==
  MFRC522_Setup(Type, prescalerRead, status2, txControl, charSigned)

(***************************************************************************)
(* The interactive session: main, scan_loop, tag_select and the            *)
(* MFRC522_Debug_* functions.  A step is one driver call together with the *)
(* code that follows it up to the next driver call or input.               *)
(***************************************************************************)
\* for (i = 0x0; i < 0x40; i += 4) in MFRC522_Debug_CardDump
CardBlocks == 64

\* C's % on int: the result has the sign of the dividend
CRem(a, b) == IF a >= 0 THEN a % b ELSE -((-a) % b)

\* ControlBlock without the test for block 0
ControlBlock_TrailerOnly(blockaddr) == CRem(blockaddr, 4) = 3

\* blockaddr == 0 || (blockaddr % 4) == 0x03
ControlBlock(blockaddr) == blockaddr = 0 \/ CRem(blockaddr, 4) = 3

\* if (ret == MI_OK) after MFRC522_Auth in the MFRC522_Debug_* functions
AuthPassed_Always(ret) == TRUE
AuthPassed(ret) == ret = MI_OK

\* block numbers typed after read, clean and write
SessionBlocks == {0, 1, 3, 4, 6, 63, 64, 131, 255}

\* the chip in a session step: a flag on the first poll with a clean error
\* register and each kind of reply, a timer expiry, a chip error, silence
SessionChips(fifoLevel, control, fifo) ==
  {[irq |-> [lead |-> 0, quiet |-> 0, val |-> v], err |-> e,
    fifoLevel |-> fifoLevel, control |-> control, fifo |-> fifo] :
      <<v, e>> \in {<<16, 0>>, <<1, 0>>, <<16, 8>>}}

AtqaChips == SessionChips(2, 0, <<4, 0>>)
UidChips == SessionChips(5, 0, CardUid)
SakChips == SessionChips(3, 0, <<8, 182, 221>>)
BlockChips == SessionChips(18, 0, BlockData \o <<55, 73>>)
AckChips == SessionChips(1, 4, <<10>>)

InitSession ==
  /\ tc = [pc |-> "off"]
  /\ pr = [pc |-> "off"]
  /\ s \in [pc : {"start"}, charSigned : BOOLEAN, cmd : {"none"}, block : {0},
            i : {0}, sect : {0}, ret_int : {0}, data : {<<>>}, exit : {0},
            handles : {0}]
  /\ ev = [op |-> "none"]
  /\ auth = [valid |-> FALSE, sector |-> 0, selected |-> FALSE]

\* the driver call op on block returned ret; a successful authenticate puts
\* its sector in force, a failed authenticate, read or write and every other
\* card operation ends it
Event(op, block, ret, ok) ==
  /\ ev' = [op |-> op, block |-> block, ret |-> ret, authBefore |-> auth]
  /\ auth' = IF op = "Auth" /\ ok
             THEN [valid |-> TRUE, sector |-> block \div 4,
                   selected |-> auth.selected]
             ELSE IF op \in {"Read", "Write"} /\ ok THEN auth
             ELSE [valid |-> FALSE, sector |-> 0,
                   selected |-> IF op = "SelectTag" THEN ok
                                ELSE IF op \in {"Auth", "Read", "Write"}
                                     THEN auth.selected
                                     ELSE FALSE]

Goto(pc) == s' = [s EXCEPT !.pc = pc]

\* a command of scan_loop is over: its locals and those of the
\* MFRC522_Debug_* function it called are gone
CommandEnds(pc) ==
  s' = [s EXCEPT !.pc = pc, !.cmd = "none", !.block = 0, !.i = 0, !.sect = 0,
                 !.ret_int = 0, !.data = <<>>]

\* the most opens of the bus device followed in one session
MaxOpens == 3

\* MFRC522_HAL_init: __spidev = open(SPI_DEV, O_RDWR), whatever __spidev
\* held; handles is the number of open handles of the process
MFRC522_HAL_init(handles) == handles + 1

\* main: MFRC522_Init('B'), which starts with MFRC522_HAL_init(); a negative
\* result ends the program with exit(-1)
Main_Init ==
  /\ s.pc = "start"
  /\ \E prescalerRead \in {62, 0}, txControl \in {0, 128} :
       \E r \in {MFRC522_Init(TypeB, prescalerRead, 0, txControl, s.charSigned)} :
           /\ Event("Init", 0, r.ret, TRUE)
           /\ IF r.ret < 0
              THEN s' = [s EXCEPT !.pc = "exited", !.exit = 255,
                                  !.handles = MFRC522_HAL_init(@)]
              ELSE s' = [s EXCEPT !.pc = "prompt", !.handles = MFRC522_HAL_init(@)]
  /\ UNCHANGED <<tc, pr>>

\* main: scanf("%s", command_buffer)
Main_Command ==
  /\ s.pc = "prompt"
  /\ \E c \in {"scan", "quit", "other"} :
       IF c = "scan" THEN Goto("request")
       ELSE IF c = "quit" THEN s' = [s EXCEPT !.pc = "exited", !.exit = 0]
       ELSE UNCHANGED s
  /\ UNCHANGED <<tc, pr, ev, auth>>

Scan_Request ==
  /\ s.pc = "request"
  /\ \E g \in StackGarbage, chip \in AtqaChips :
       \E r \in {MFRC522_Request(PICC_REQIDL, [k \in 1..16 |-> 0], g, chip)} :
           /\ Event("Request", 0, r.ret, r.ret = MI_OK)
           /\ IF r.ret = MI_OK THEN Goto("anticoll") ELSE Goto("halt")
  /\ UNCHANGED <<tc, pr>>

Scan_Anticoll ==
  /\ s.pc = "anticoll"
  /\ \E g \in StackGarbage, chip \in UidChips :
       \E r \in {MFRC522_Anticoll([k \in 1..5 |-> 0], g, chip)} :
           /\ Event("Anticoll", 0, r.ret, r.ret = MI_OK)
           /\ IF r.ret = MI_OK THEN Goto("select") ELSE Goto("halt")
  /\ UNCHANGED <<tc, pr>>

\* SelectPassed taking every size for a selection
SelectPassed_Always(ret_int) == TRUE

\* tag_select returns -1 if (ret_int == 0), else 0, and main goes on to
\* scan_loop if (ret == MI_OK)
SelectPassed(ret_int) == ret_int # 0

\* tag_select: a zero size is a failed selection
Scan_Select ==
  /\ s.pc = "select"
  /\ \E g \in StackGarbage, crc \in CrcChips, chip \in SakChips :
       \E r \in {MFRC522_SelectTag(CardUid, g, crc, chip)} :
           /\ Event("SelectTag", 0, r.ret, r.ret # 0)
           /\ IF SelectPassed(r.ret) THEN Goto("sub") ELSE Goto("halt")
  /\ UNCHANGED <<tc, pr>>

\* the MFRC522_Halt() at the end of each round of the scan loop
Scan_Halt ==
  /\ s.pc = "halt"
  /\ \E g \in StackGarbage, crc \in CrcChips, chip \in AckChips :
       \E r \in {MFRC522_Halt(g, crc, chip)} :
           Event("Halt", 0, r.ret, TRUE)
  /\ Goto("request")
  /\ UNCHANGED <<tc, pr>>

\* scan_loop: scanf("%s", input) and, for read, clean and write, the block
Sub_Command ==
  /\ s.pc = "sub"
  /\ \/ s' = [s EXCEPT !.pc = "sub_halt", !.cmd = "halt"]
     \/ s' = [s EXCEPT !.pc = "ds_auth", !.cmd = "dump", !.sect = 0, !.block = 0,
                       !.ret_int = 0, !.i = 0]
     \/ \E b \in SessionBlocks :
          s' = [s EXCEPT !.pc = "ds_auth", !.cmd = "read", !.block = U8(b), !.i = 0]
     \/ \E b \in SessionBlocks :
          s' = [s EXCEPT !.pc = "cl_auth", !.cmd = "clean",
                         !.block = ToChar(b, s.charSigned), !.data = [k \in 1..16 |-> 0]]
     \/ \E b \in SessionBlocks, d \in Payloads :
          s' = [s EXCEPT !.pc = "wr_auth", !.cmd = "write",
                         !.block = ToChar(b, s.charSigned), !.data = d]
  /\ UNCHANGED <<tc, pr, ev, auth>>

\* scan_loop: halt
Sub_Halt ==
  /\ s.pc = "sub_halt"
  /\ \E g \in StackGarbage, crc \in CrcChips, chip \in AckChips :
       \E r \in {MFRC522_Halt(g, crc, chip)} :
           Event("Halt", 0, r.ret, TRUE)
  /\ CommandEnds("final_halt")
  /\ UNCHANGED <<tc, pr>>

\* MFRC522_Debug_DumpSector has returned ret to scan_loop (read) or to
\* MFRC522_Debug_CardDump (dump), which goes on with the next sector
DumpSectorReturns(ret) ==
  IF s.cmd = "read"
  THEN (IF ret < 0 THEN CommandEnds("final_halt") ELSE CommandEnds("sub"))
  ELSE LET ret_int == IF s.ret_int < 0 \/ ret < 0 THEN -1 ELSE 0
           sect == s.sect + 4
       IN  IF sect < CardBlocks
           THEN s' = [s EXCEPT !.pc = "ds_auth", !.sect = sect, !.block = sect,
                               !.ret_int = ret_int, !.i = 0]
           ELSE IF ret_int < 0
                THEN CommandEnds("final_halt")
                ELSE CommandEnds("sub")

\* MFRC522_Debug_DumpSector: MFRC522_Auth on block_addr
DS_Auth ==
  /\ s.pc = "ds_auth"
  /\ \E g \in StackGarbage, chip \in AckChips, status2 \in Status2Values :
       \E r \in {MFRC522_Auth(PICC_AUTHENT1A, s.block, DefaultKey, CardUid, g,
                             chip, status2)} :
           /\ Event("Auth", s.block, r.ret, r.ret = MI_OK)
           /\ IF AuthPassed(r.ret) THEN Goto("ds_read") ELSE DumpSectorReturns(-1)
  /\ UNCHANGED <<tc, pr>>

\* MFRC522_Debug_DumpSector: MFRC522_Read(block_addr + i, buffer + i * 16)
DS_Read ==
  /\ s.pc = "ds_read"
  /\ \E g \in StackGarbage, crc \in CrcChips, chip \in BlockChips :
       \E blk \in {U8(s.block + s.i)} :
       \E r \in {MFRC522_Read(blk, [k \in 1..16 |-> 0], g, crc, chip)} :
           /\ Event("Read", blk, r.ret, r.ret > 0)
           /\ IF r.ret <= 0 THEN DumpSectorReturns(-1)
              ELSE IF s.i + 1 < 4 - (s.block % 4)
                   THEN s' = [s EXCEPT !.i = s.i + 1]
                   ELSE DumpSectorReturns(0)
  /\ UNCHANGED <<tc, pr>>

\* MFRC522_Debug_Clean: MFRC522_Auth, then the control-block test
CL_Auth ==
  /\ s.pc = "cl_auth"
  /\ \E g \in StackGarbage, chip \in AckChips, status2 \in Status2Values :
       \E r \in {MFRC522_Auth(PICC_AUTHENT1A, U8(s.block), DefaultKey, CardUid, g,
                             chip, status2)} :
           /\ Event("Auth", U8(s.block), r.ret, r.ret = MI_OK)
           /\ IF AuthPassed(r.ret) /\ ~ControlBlock(s.block)
              THEN Goto("cl_write") ELSE CommandEnds("final_halt")
  /\ UNCHANGED <<tc, pr>>

\* MFRC522_Debug_Clean: MFRC522_Write of 16 zero bytes; scan_loop leaves on
\* every nonzero result
CL_Write ==
  /\ s.pc = "cl_write"
  /\ \E g \in StackGarbage, crc \in CrcChips, chip1 \in AckChips :
       \E chip2 \in IF WriteRefused(WriteCommand(U8(s.block), g, crc, chip1))
                    THEN {chip1} ELSE AckChips :
         \E r \in {MFRC522_Write(U8(s.block), s.data, g, crc, chip1, crc, chip2)} :
             /\ Event("Write", U8(s.block), r.ret, r.ret = MI_OK)
             /\ IF r.ret = MI_OK THEN CommandEnds("sub") ELSE CommandEnds("final_halt")
  /\ UNCHANGED <<tc, pr>>

\* MFRC522_Debug_Write: MFRC522_Auth, then the control-block test
WR_Auth ==
  /\ s.pc = "wr_auth"
  /\ \E g \in StackGarbage, chip \in AckChips, status2 \in Status2Values :
       \E r \in {MFRC522_Auth(PICC_AUTHENT1A, U8(s.block), DefaultKey, CardUid, g,
                             chip, status2)} :
           /\ Event("Auth", U8(s.block), r.ret, r.ret = MI_OK)
           /\ IF AuthPassed(r.ret) /\ ~ControlBlock(s.block)
              THEN Goto("wr_write") ELSE CommandEnds("final_halt")
  /\ UNCHANGED <<tc, pr>>

\* MFRC522_Debug_Write: MFRC522_Write of the data; scan_loop leaves only on
\* a negative result
WR_Write ==
  /\ s.pc = "wr_write"
  /\ \E g \in StackGarbage, crc \in CrcChips, chip1 \in AckChips :
       \E chip2 \in IF WriteRefused(WriteCommand(U8(s.block), g, crc, chip1))
                    THEN {chip1} ELSE AckChips :
         \E r \in {MFRC522_Write(U8(s.block), s.data, g, crc, chip1, crc, chip2)} :
             /\ Event("Write", U8(s.block), r.ret, r.ret = MI_OK)
             /\ IF r.ret < 0 THEN CommandEnds("final_halt") ELSE CommandEnds("sub")
  /\ UNCHANGED <<tc, pr>>

\* main, after the scan loop: MFRC522_Halt()
Final_Halt ==
  /\ s.pc = "final_halt"
  /\ \E g \in StackGarbage, crc \in CrcChips, chip \in AckChips :
       \E r \in {MFRC522_Halt(g, crc, chip)} :
           Event("Halt", 0, r.ret, TRUE)
  /\ Goto("reinit")
  /\ UNCHANGED <<tc, pr>>

\* main, after the scan loop: MFRC522_Init('B'), result not looked at
Final_Init ==
  /\ s.pc = "reinit"
  /\ s.handles < MaxOpens
  /\ \E prescalerRead \in {62, 0}, txControl \in {0, 128} :
       \E r \in {MFRC522_Init(TypeB, prescalerRead, 0, txControl, s.charSigned)} :
           Event("Init", 0, r.ret, TRUE)
  /\ s' = [s EXCEPT !.pc = "prompt", !.handles = MFRC522_HAL_init(@)]
  /\ UNCHANGED <<tc, pr>>

NextSession ==
  \/ Main_Init \/ Main_Command
  \/ Scan_Request \/ Scan_Anticoll \/ Scan_Select \/ Scan_Halt
  \/ Sub_Command \/ Sub_Halt
  \/ DS_Auth \/ DS_Read
  \/ CL_Auth \/ CL_Write
  \/ WR_Auth \/ WR_Write
  \/ Final_Halt \/ Final_Init

SpecSession == InitSession /\ [][NextSession]_vars

(***************************************************************************)
(* One pass from card discovery to the first block read, as main,          *)
(* tag_select, scan_loop ("read") and MFRC522_Debug_DumpSector make it:    *)
(* request, anti-collision, select, authenticate, read.  pr.log holds the  *)
(* results of the driver calls made so far, pr.card what the card holds.   *)
(***************************************************************************)
\* the card's answers to one command: at the first poll, after a quiet
\* poll, not at all (timer), or spoilt by a collision
Answers(fifoLevel, control, fifo) ==
  SessionChips(fifoLevel, control, fifo)
  \cup {[irq |-> [lead |-> 68, quiet |-> 1, val |-> 48], err |-> 0,
          fifoLevel |-> fifoLevel, control |-> control, fifo |-> fifo]}

Cards == [sak : {8, 24}, data : {BlockData, [k \in 1..16 |-> 0]}]

InitPass ==
  /\ tc = [pc |-> "off"]
  /\ SessionOff
  /\ pr \in [pc : {"request"}, reqMode : {PICC_REQIDL, PICC_REQALL}, card : Cards,
             block : {4, 5}, log : {<<>>}]

\* the call returned r; the pass goes on when passed holds
Logged(r, passed, next) ==
  pr' = [pr EXCEPT !.log = Append(pr.log, r),
                   !.pc = IF passed THEN next ELSE "failed"]

\* CardID as MFRC522_Anticoll left it
CardID == pr.log[2].buf

Pass_Request ==
  /\ pr.pc = "request"
  /\ \E g \in StackGarbage, chip \in Answers(2, 0, <<4, 0>>) :
       \E r \in {MFRC522_Request(pr.reqMode, [k \in 1..16 |-> 0], g, chip)} :
         Logged(r, r.ret = MI_OK, "anticoll")
  /\ UNCHANGED <<tc, sessVars>>

Pass_Anticoll ==
  /\ pr.pc = "anticoll"
  /\ \E g \in StackGarbage, chip \in Answers(5, 0, CardUid) :
       \E r \in {MFRC522_Anticoll([k \in 1..5 |-> 0], g, chip)} :
         Logged(r, r.ret = MI_OK, "select")
  /\ UNCHANGED <<tc, sessVars>>

Pass_Select ==
  /\ pr.pc = "select"
  /\ \E g \in StackGarbage, crc \in CrcChips,
        chip \in Answers(3, 0, <<pr.card.sak, 182, 221>>) :
       \E r \in {MFRC522_SelectTag(CardID, g, crc, chip)} :
         Logged(r, r.ret # 0, "auth")
  /\ UNCHANGED <<tc, sessVars>>

Pass_Auth ==
  /\ pr.pc = "auth"
  /\ \E g \in StackGarbage, chip \in Answers(0, 0, <<>>), status2 \in Status2Values :
       \E r \in {MFRC522_Auth(PICC_AUTHENT1A, pr.block, DefaultKey, CardID, g,
                              chip, status2)} :
         Logged(r, AuthPassed(r.ret), "read")
  /\ UNCHANGED <<tc, sessVars>>

Pass_Read ==
  /\ pr.pc = "read"
  /\ \E g \in StackGarbage, crc \in CrcChips,
        chip \in Answers(18, 0, pr.card.data \o <<55, 73>>) :
       \E r \in {MFRC522_Read(pr.block, [k \in 1..16 |-> 0], g, crc, chip)} :
         Logged(r, r.ret > 0, "done")
  /\ UNCHANGED <<tc, sessVars>>

NextPass ==
  \/ Pass_Request \/ Pass_Anticoll \/ Pass_Select \/ Pass_Auth \/ Pass_Read

SpecPass == InitPass /\ [][NextPass]_vars

(***************************************************************************)
(* One call of MFRC522_ToCard: tc.res is what it returns and leaves in the *)
(* caller's buffers.                                                       *)
(***************************************************************************)
InitToCard ==
  /\ tc \in [pc : {"call"}, command : ToCardCommands, chip : ToCardChips,
              res : {NoResult}]
  /\ pr = [pc |-> "off"]
  /\ SessionOff

CallToCard ==
  /\ tc.pc = "call"
  /\ tc' = [tc EXCEPT !.pc = "done",
                      !.res = MFRC522_ToCard(tc.command, CallerBuf, CallerSendLen,
                                             CallerBuf, CallerLen, tc.chip)]
  /\ UNCHANGED <<pr, sessVars>>

NextToCard == CallToCard

SpecToCard == InitToCard /\ [][NextToCard]_vars

(***************************************************************************)
(* One call of MFRC522_ToCard with the bus accesses it makes: tc.res is    *)
(* what it returns, tc.log the accesses in order.                          *)
(***************************************************************************)
\* what the registers that MFRC522_ToCard reads before it modifies them hold
\* when the call starts: the bit-framing register with and without StartSend
\* and TxLastBits
StartValues ==
  [commIrq : {20, 148}, fifoLevel : {0, 3}, bitFraming : {0, 7, 128, 135}]

\* answers at the first or second poll, with and without an error bit and
\* with a 4-bit or a 2-byte reply; and no answer within the budget
AccessChips ==
  [irq : {[lead |-> 0, quiet |-> 0, val |-> v] : v \in {1, 16, 32}}
         \cup {[lead |-> 68, quiet |-> 1, val |-> 17]},
   err : {0, 8}, fifoLevel : {1, 2}, control : {0, 4}, fifo : {<<10, 4>>}]
  \cup [irq : {SilentTrace}, err : {0}, fifoLevel : {1}, control : {4},
        fifo : {<<10, 4>>}]

InitAccess ==
  /\ tc \in [pc : {"call"}, command : ToCardCommands, chip : AccessChips,
              before : StartValues, res : {NoResult}, log : {<<>>}]
  /\ pr = [pc |-> "off"]
  /\ SessionOff

Access_ToCard ==
  /\ tc.pc = "call"
  /\ \E r \in {MFRC522_ToCard(tc.command, CallerBuf, CallerSendLen,
                                CallerBuf, CallerLen, tc.chip)} :
       tc' = [tc EXCEPT !.pc = "done", !.res = r,
                        !.log = ToCardAccesses(tc.command, CallerBuf,
                                               CallerSendLen, tc.chip,
                                               tc.before, r)]
  /\ UNCHANGED <<pr, sessVars>>

NextAccess == Access_ToCard

SpecAccess == InitAccess /\ [][NextAccess]_vars

(***************************************************************************)
(* MFRC522_CalculateCRC alone and inside its callers, for every number of  *)
(* reads the divider-interrupt register can stay without the CRC-done bit. *)
(* tc.crc is the CRC coprocessor's behaviour, tc.out the operation's       *)
(* result; the card answers every frame at once.                           *)
(***************************************************************************)
\* up to the budget and past it: the last values never show the bit in time
CrcQuietRange == 0..(CrcBudget + 2)

CrcBehaviours ==
  [quiet : CrcQuietRange, lo : {18, 205}, hi : {52}]

\* a card that answers a 4-bit acknowledge at the first poll
AckChip ==
  [irq |-> [lead |-> 0, quiet |-> 0, val |-> 16], err |-> 0,
   fifoLevel |-> 1, control |-> 4, fifo |-> <<AckNibble>>]

InitCrc ==
  /\ tc \in [pc : {"call"},
              op : {"CalculateCRC", "SelectTag", "Read", "Write", "Halt"},
              crc : CrcBehaviours, out : {NoOut}]
  /\ pr = [pc |-> "off"]
  /\ SessionOff

CrcReturned(out) == tc' = [tc EXCEPT !.pc = "done", !.out = out]

Crc_Calculate ==
  /\ tc.pc = "call" /\ tc.op = "CalculateCRC"
  /\ CrcReturned(WithCrcs(NoOut, <<MFRC522_CalculateCRC(BlockData, 2, tc.crc)>>))
  /\ UNCHANGED <<pr, sessVars>>

Crc_SelectTag ==
  /\ tc.pc = "call" /\ tc.op = "SelectTag"
  /\ \E g \in StackGarbage :
       CrcReturned(MFRC522_SelectTag(CardUid, g, tc.crc, AckChip))
  /\ UNCHANGED <<pr, sessVars>>

Crc_Read ==
  /\ tc.pc = "call" /\ tc.op = "Read"
  /\ \E g \in StackGarbage :
       CrcReturned(MFRC522_Read(4, [k \in 1..16 |-> 0], g, tc.crc, AckChip))
  /\ UNCHANGED <<pr, sessVars>>

Crc_Write ==
  /\ tc.pc = "call" /\ tc.op = "Write"
  /\ \E g \in StackGarbage :
       CrcReturned(MFRC522_Write(4, BlockData, g, tc.crc, AckChip,
                                 tc.crc, AckChip))
  /\ UNCHANGED <<pr, sessVars>>

Crc_Halt ==
  /\ tc.pc = "call" /\ tc.op = "Halt"
  /\ \E g \in StackGarbage :
       CrcReturned(MFRC522_Halt(g, tc.crc, AckChip))
  /\ UNCHANGED <<pr, sessVars>>

NextCrc ==
  Crc_Calculate \/ Crc_SelectTag \/ Crc_Read \/ Crc_Write \/ Crc_Halt

SpecCrc == InitCrc /\ [][NextCrc]_vars

(***************************************************************************)
(* The register-level operations alone: MFRC522_Init (MFRC522_Setup),      *)
(* MFRC522_AntennaOn and MFRC522_AntennaOff.  tc holds the arguments and   *)
(* what the registers read before the call, tc.out the result.             *)
(***************************************************************************)
\* what the prescaler register reads back: the probe value, and values that
\* differ from it in no, one or all bits above it
PrescalerReads == {62, 0, 190, 255}
TxControlRange == 0..255

NoRegs == [ret |-> 0, log |-> <<>>]

\* answers to the wake-up request: a 2-byte ATQA, a timeout, a parity
\* error, a 1-byte reply
CheckAtqaChips == SessionChips(2, 0, <<4, 0>>) \cup SessionChips(1, 0, <<4>>)
\* answers to the anti-collision: the UID with its checksum or a wrong one
CheckUidChips ==
  SessionChips(5, 0, CardUid) \cup SessionChips(5, 0, <<222, 173, 190, 239, 35>>)

InitRegs ==
  /\ tc \in [pc : {"call"}, op : {"Init"}, Type : {TypeA, TypeB},
              prescalerRead : PrescalerReads, status2 : {0, 8, 9},
              txControl : {0, 1, 2, 3, 128, 131}, charSigned : BOOLEAN,
              request : {AckChip}, anticoll : {AckChip}, out : {NoRegs}]
         \cup [pc : {"call"}, op : {"AntennaOn", "AntennaOff"}, Type : {TypeB},
               prescalerRead : {62}, status2 : {0},
               txControl : TxControlRange, charSigned : {FALSE},
               request : {AckChip}, anticoll : {AckChip}, out : {NoRegs}]
         \cup [pc : {"call"}, op : {"Check"}, Type : {TypeB},
               prescalerRead : {62}, status2 : {0, 8, 9},
               txControl : {131}, charSigned : {FALSE},
               request : CheckAtqaChips, anticoll : CheckUidChips,
               out : {NoRegs}]
  /\ pr = [pc |-> "off"]
  /\ SessionOff

RegsReturned(out) == tc' = [tc EXCEPT !.pc = "done", !.out = out]

Regs_Init ==
  /\ tc.pc = "call" /\ tc.op = "Init"
  /\ RegsReturned(MFRC522_Init(tc.Type, tc.prescalerRead, tc.status2,
                               tc.txControl, tc.charSigned))
  /\ UNCHANGED <<pr, sessVars>>

Regs_AntennaOn ==
  /\ tc.pc = "call" /\ tc.op = "AntennaOn"
  /\ RegsReturned([ret |-> 0, log |-> MFRC522_AntennaOn(tc.txControl)])
  /\ UNCHANGED <<pr, sessVars>>

Regs_AntennaOff ==
  /\ tc.pc = "call" /\ tc.op = "AntennaOff"
  /\ RegsReturned([ret |-> 0, log |-> MFRC522_AntennaOff(tc.txControl)])
  /\ UNCHANGED <<pr, sessVars>>

Regs_Check ==
  /\ tc.pc = "call" /\ tc.op = "Check"
  /\ \E g1 \in StackGarbage, g2 \in StackGarbage :
       RegsReturned(MFRC522_Check([k \in 1..5 |-> 0], tc.status2, g1,
                                  tc.request, g2, tc.anticoll))
  /\ UNCHANGED <<pr, sessVars>>

NextRegs == Regs_Init \/ Regs_AntennaOn \/ Regs_AntennaOff \/ Regs_Check

SpecRegs == InitRegs /\ [][NextRegs]_vars

(***************************************************************************)
(* Two callers of MFRC522_SetBitMask / MFRC522_ClearBitMask on the same    *)
(* register.  A step is one bus access: the read of the register into the  *)
(* caller's temporary, or the write of the value computed from it.         *)
(* tc.serial says whether the callers are serialized (a call starts only   *)
(* when no other call is between its read and its write).                  *)
(***************************************************************************)
RmwCallers == {1, 2}
\* the register both callers modify, and another one
RmwTarget == MFRC522_REG_BIT_FRAMING
RmwOther == MFRC522_REG_FIFO_LEVEL
RmwValues == {0, 255, 128, 127, 8, 3, 131, 139, 11, 136, 85, 170, 1, 2, 4, 247}
\* the callers change different bits
RmwMasks == <<{128}, {8, 3}>>

\* the bus accesses of the call of caller c when the register reads cur
RmwAccesses(c, cur) ==
  IF c.op = "Set" THEN MFRC522_SetBitMask(RmwTarget, c.mask, cur)
  ELSE MFRC522_ClearBitMask(RmwTarget, c.mask, cur)

InitRmw ==
  /\ \E v \in RmwValues, serial \in BOOLEAN,
        op1 \in {"Set", "Clear"}, op2 \in {"Set", "Clear"},
        m1 \in RmwMasks[1], m2 \in RmwMasks[2] :
       tc = [serial |-> serial,
             before |-> v,
             regs |-> [r \in {RmwTarget, RmwOther} |->
                         IF r = RmwTarget THEN v ELSE 85],
             p |-> <<[pc |-> "start", op |-> op1, mask |-> m1, temp |-> 0],
                     [pc |-> "start", op |-> op2, mask |-> m2, temp |-> 0]>>]
  /\ pr = [pc |-> "off"]
  /\ SessionOff

\* MFRC522_ReadRegister(reg) of caller i
Rmw_Read(i) ==
  /\ tc.p[i].pc = "start"
  /\ tc.serial => \A j \in RmwCallers : tc.p[j].pc # "read"
  /\ \E acc \in {RmwAccesses(tc.p[i], tc.regs[RmwTarget])[1]} :
       tc' = [tc EXCEPT !.p[i].pc = "read", !.p[i].temp = acc.val]
  /\ UNCHANGED <<pr, sessVars>>

\* MFRC522_WriteRegister(reg, value computed from the value read) of caller i
Rmw_Write(i) ==
  /\ tc.p[i].pc = "read"
  /\ \E acc \in {RmwAccesses(tc.p[i], tc.p[i].temp)[2]} :
       tc' = [tc EXCEPT !.p[i].pc = "done", !.regs[acc.reg] = acc.val]
  /\ UNCHANGED <<pr, sessVars>>

NextRmw ==
  \/ \E i \in RmwCallers : Rmw_Read(i)
  \/ \E i \in RmwCallers : Rmw_Write(i)

SpecRmw == InitRmw /\ [][NextRmw]_vars

(***************************************************************************)
(* The bus exchange of one register access (mfrc522_hal_linux.c).  An      *)
(* exchange is the transmit buffer handed to the one SPI_IOC_MESSAGE(1)    *)
(* ioctl and its length.                                                   *)
(***************************************************************************)
\* MFRC522_HAL_read without | 0x80
MFRC522_HAL_read_NoReadBit(addr) ==
  <<[tx |-> <<BitAnd(addr * 2, 254), 255>>, len |-> 2]>>

\* _dummytx[0] = (addr << 1) & 0x7E; _dummytx[1] = val; len = 2
MFRC522_HAL_write(addr, val) ==
  <<[tx |-> <<BitAnd(addr * 2, 126), val>>, len |-> 2]>>

\* _dummytx[0] = ((addr << 1) & 0xFE) | 0x80; _dummytx[1] = 0xFF; len = 2
MFRC522_HAL_read(addr) ==
  <<[tx |-> <<BitOr(BitAnd(addr * 2, 254), 128), 255>>, len |-> 2]>>

\* every value of the unsigned char address; the chip has 0x00..0x3F
BusAddresses == 0..255

InitBus ==
  /\ tc \in [pc : {"call"}, op : {"write", "read"}, addr : BusAddresses,
              val : {0, 62, 255}, out : {<<>>}]
  /\ pr = [pc |-> "off"]
  /\ SessionOff

\* MFRC522_WriteRegister(addr, val)
Bus_Write ==
  /\ tc.pc = "call" /\ tc.op = "write"
  /\ tc' = [tc EXCEPT !.pc = "done", !.out = MFRC522_HAL_write(tc.addr, tc.val)]
  /\ UNCHANGED <<pr, sessVars>>

\* MFRC522_ReadRegister(addr)
Bus_Read ==
  /\ tc.pc = "call" /\ tc.op = "read"
  /\ tc' = [tc EXCEPT !.pc = "done", !.out = MFRC522_HAL_read(tc.addr)]
  /\ UNCHANGED <<pr, sessVars>>

NextBus == Bus_Write \/ Bus_Read

SpecBus == InitBus /\ [][NextBus]_vars

(***************************************************************************)
(* Properties of MFRC522_ToCard (checked under SpecToCard).                *)
(***************************************************************************)
TcDone == tc.pc = "done"
TcCardCommand == tc.command \in {PCD_TRANSCEIVE, PCD_AUTHENT}

\* the timer-expired bit 0x01 is set in the interrupt value n
TimerSeen(n) == n % 2 = 1
\* the wait-mask bit of the command (0x30 transceive, 0x10 authenticate) is
\* set in the interrupt value n
WaitSeen(command, n) ==
  IF command = PCD_TRANSCEIVE THEN (n \div 16) % 4 # 0
  ELSE IF command = PCD_AUTHENT THEN (n \div 16) % 2 # 0
  ELSE FALSE
\* one of the bits 0x1B is set in the error register value
ErrSeen(err) ==
  \/ err % 2 = 1
  \/ (err \div 2) % 2 = 1
  \/ (err \div 8) % 2 = 1
  \/ (err \div 16) % 2 = 1

\* C2: when the error register has a bit of 0x1B set, MFRC522_ToCard
\* returns MI_ERR, whatever the command and the interrupt bits that ended
\* the poll loop.
C2_ErrorBitsGiveErr ==
  (TcDone /\ ErrSeen(tc.chip.err)) => tc.res.status = MI_ERR

\* C2 witness: the error register was read with a monitored bit set after
\* the wait-mask bit alone had ended the loop
C2_Witness ==
  /\ TcDone /\ tc.res.errRead /\ ErrSeen(tc.chip.err)
  /\ WaitSeen(tc.command, tc.res.n) /\ ~TimerSeen(tc.res.n)
  /\ tc.res.status = MI_ERR

\* C3 (as claimed): for transceive and authenticate, a poll loop that ends
\* on a read with the timer bit set and the wait-mask bit clear, with a
\* clean error register, makes MFRC522_ToCard return MI_NOTAGERR.
C3_TimerOnlyGivesNoTag ==
  (/\ TcDone /\ TcCardCommand
   /\ TimerSeen(tc.res.n) /\ ~WaitSeen(tc.command, tc.res.n)
   /\ ~ErrSeen(tc.chip.err))
  => tc.res.status = MI_NOTAGERR

\* C4 (as claimed): for transceive and authenticate, a poll within the
\* budget that reads the wait-mask bit without the timer bit, with a clean
\* error register, makes MFRC522_ToCard return MI_OK.
C4_WaitOnlyGivesOk ==
  (/\ TcDone /\ TcCardCommand
   /\ WaitSeen(tc.command, tc.res.n) /\ ~TimerSeen(tc.res.n)
   /\ ~ErrSeen(tc.chip.err))
  => tc.res.status = MI_OK

\* C5 (as claimed): budget exhaustion decides the result only when no poll
\* saw a flag: without a flag the call returns MI_ERR and touches neither
\* the error register, the FIFO, backData nor *backLen; with a flag seen the
\* error register is read and it and the interrupt bits decide the result.
C5_ExhaustionOnlyWithoutFlag ==
  TcDone =>
    /\ (~TimerSeen(tc.res.n) /\ ~WaitSeen(tc.command, tc.res.n) /\ TcCardCommand)
         => (/\ tc.res.status = MI_ERR /\ ~tc.res.errRead /\ tc.res.fifoReads = 0
             /\ tc.res.backData = CallerBuf /\ tc.res.backLen = CallerLen)
    /\ ((TimerSeen(tc.res.n) \/ WaitSeen(tc.command, tc.res.n)) /\ TcCardCommand)
         => (/\ tc.res.errRead
             /\ ErrSeen(tc.chip.err) => tc.res.status = MI_ERR
             /\ ~ErrSeen(tc.chip.err) => tc.res.status \in {MI_OK, MI_NOTAGERR})

\* C6: every call polls the interrupt register at least once and at most
\* 2000 times, stops at the first read with the timer bit or the wait-mask
\* bit set, and returns MI_OK, MI_NOTAGERR or MI_ERR.
C6_PollLoopBounded ==
  TcDone =>
    /\ tc.res.polls \in 1..2000
    /\ \A m \in 1..(tc.res.polls - 1) :
         /\ ~TimerSeen(ReadIrq(tc.chip.irq, m))
         /\ ~WaitSeen(tc.command, ReadIrq(tc.chip.irq, m))
    /\ tc.res.polls < 2000 =>
         (TimerSeen(tc.res.n) \/ WaitSeen(tc.command, tc.res.n))
    /\ tc.res.n = ReadIrq(tc.chip.irq, tc.res.polls)
    /\ tc.res.status \in {MI_OK, MI_NOTAGERR, MI_ERR}

\* C6 witness: a call whose 2000 polls all read neither bit has returned
C6_Witness ==
  /\ TcDone /\ tc.res.polls = 2000
  /\ ~TimerSeen(tc.res.n) /\ ~WaitSeen(tc.command, tc.res.n)
  /\ tc.res.status = MI_ERR

\* the RxLastBits field of the control register value the chip answers
LastBits == tc.chip.control % 8
\* a transceive that ended with MI_OK
TransceiveOk ==
  TcDone /\ tc.command = PCD_TRANSCEIVE /\ tc.res.status = MI_OK

\* C21: after a successful transceive the bit count stored through backLen
\* is (fifoLevel - 1) * 8 + lastBits when lastBits is not 0 and
\* fifoLevel * 8 when it is 0, for every FIFO level and lastBits 0..7.
C21_BackLenFormula ==
  TransceiveOk =>
    tc.res.backLen = IF LastBits # 0
                     THEN (tc.chip.fifoLevel - 1) * 8 + LastBits
                     ELSE tc.chip.fifoLevel * 8

\* C22: the number of reads of the FIFO data register is
\* min(max(fifoLevel, 1), 16) for every FIFO level 0..255, so at least 1 and
\* at most 16 bytes are stored in the result buffer, the rest of which is
\* left as the caller passed it.
C22_DrainClamped ==
  (TcDone /\ tc.res.fifoReads # 0) =>
    LET atLeastOne == IF tc.chip.fifoLevel < 1 THEN 1 ELSE tc.chip.fifoLevel
        clamped == IF atLeastOne > 16 THEN 16 ELSE atLeastOne
    IN  /\ tc.res.fifoReads = clamped
        /\ tc.res.fifoReads \in 1..16
        /\ \A k \in DOMAIN CallerBuf :
             k > tc.res.fifoReads => tc.res.backData[k] = CallerBuf[k]

\* C22 witness: a FIFO level of 255 was answered and 16 bytes were read
C22_Witness ==
  /\ TcDone /\ tc.chip.fifoLevel = 255 /\ tc.res.fifoReads = 16
  /\ tc.res.backData[16] # CallerBuf[16]
  /\ tc.res.backData[17] = CallerBuf[17]

\* C34: MFRC522_ToCard reads the FIFO and writes backData and *backLen only
\* when it returns MI_OK for PCD_TRANSCEIVE; when it returns MI_NOTAGERR or
\* MI_ERR, or the command is PCD_AUTHENT, backData and *backLen are left
\* unchanged and no FIFO data is read.
C34_ReadoutOnlyOnSuccess ==
  (TcDone /\ (tc.res.status \in {MI_NOTAGERR, MI_ERR}
              \/ tc.command = PCD_AUTHENT)) =>
    /\ tc.res.fifoReads = 0
    /\ tc.res.backData = CallerBuf
    /\ tc.res.backLen = CallerLen

\* C38: for every FIFO level 0..255 and lastBits 0..7 the bit count stored in
\* *backLen is at most 8 times the FIFO level, FIFO level 0 with a nonzero
\* lastBits included.
C38_BackLenNoWrap ==
  (TcDone /\ tc.res.fifoReads # 0) => tc.res.backLen <= 8 * tc.chip.fifoLevel

\* C39: with the CRC-error bit 0x04 set in the error register after the
\* transaction MFRC522_ToCard does not return MI_OK.
C39_CrcErrorNotSuccess ==
  (TcDone /\ (tc.chip.err \div 4) % 2 = 1) => tc.res.status # MI_OK

(***************************************************************************)
(* Properties of the bus accesses of MFRC522_ToCard (checked under         *)
(* SpecAccess).                                                            *)
(***************************************************************************)
\* the bus accesses of the finished call, and the indices of some of them
TcLog == tc.log
WritesTo(reg) == {k \in DOMAIN TcLog : TcLog[k].op = "write" /\ TcLog[k].reg = reg}
ReadsOf(reg) == {k \in DOMAIN TcLog : TcLog[k].op = "read" /\ TcLog[k].reg = reg}
\* the index of the write of the command, and of the first poll
CommandAt == 7 + CallerSendLen
FirstPollAt == IF tc.command = PCD_TRANSCEIVE THEN CommandAt + 3 ELSE CommandAt + 1
\* the index of the last poll
LastPollAt == FirstPollAt + tc.res.polls - 1

\* C32: the accesses of MFRC522_ToCard come in this order: interrupt-enable
\* written, pending-interrupt flag cleared, FIFO flushed, command register
\* set to idle, the sendLen payload bytes written to the FIFO data register
\* in index order, the command register written with the command exactly
\* once, for PCD_TRANSCEIVE only the StartSend bit set in the bit-framing
\* register, and only then the first poll of the interrupt register; no
\* payload byte is written after the command.
C32_AccessOrder ==
  TcDone =>
    /\ TcLog[1].op = "write" /\ TcLog[1].reg = MFRC522_REG_COMM_IE_N
    /\ TcLog[2] = MFRC522_ReadRegister(MFRC522_REG_COMM_IRQ, tc.before.commIrq)
    /\ TcLog[3].op = "write" /\ TcLog[3].reg = MFRC522_REG_COMM_IRQ
    /\ TcLog[3].val \div 128 = 0
    /\ TcLog[4] = MFRC522_ReadRegister(MFRC522_REG_FIFO_LEVEL, tc.before.fifoLevel)
    /\ TcLog[5].op = "write" /\ TcLog[5].reg = MFRC522_REG_FIFO_LEVEL
    /\ TcLog[5].val \div 128 = 1
    /\ TcLog[6] = MFRC522_WriteRegister(MFRC522_REG_COMMAND, PCD_IDLE)
    /\ \A k \in 1..CallerSendLen :
         TcLog[6 + k] = MFRC522_WriteRegister(MFRC522_REG_FIFO_DATA, CallerBuf[k])
    /\ WritesTo(MFRC522_REG_FIFO_DATA) = 7..(6 + CallerSendLen)
    /\ TcLog[CommandAt] = MFRC522_WriteRegister(MFRC522_REG_COMMAND, tc.command)
    /\ WritesTo(MFRC522_REG_COMMAND) = {6, CommandAt}
    /\ tc.command = PCD_TRANSCEIVE =>
         /\ TcLog[CommandAt + 1] =
              MFRC522_ReadRegister(MFRC522_REG_BIT_FRAMING, tc.before.bitFraming)
         /\ TcLog[CommandAt + 2].op = "write"
         /\ TcLog[CommandAt + 2].reg = MFRC522_REG_BIT_FRAMING
         /\ TcLog[CommandAt + 2].val \div 128 = 1
         /\ TcLog[CommandAt + 2].val % 128 = tc.before.bitFraming % 128
    /\ tc.command # PCD_TRANSCEIVE =>
         \A k \in WritesTo(MFRC522_REG_BIT_FRAMING) : TcLog[k].val \div 128 = 0
    /\ TcLog[FirstPollAt] =
         MFRC522_ReadRegister(MFRC522_REG_COMM_IRQ, ReadIrq(tc.chip.irq, 1))
    /\ ReadsOf(MFRC522_REG_COMM_IRQ) = {2} \cup (FirstPollAt..LastPollAt)

\* C32 witness: an authenticate (no StartSend) polled twice after its frame
\* of 4 bytes and the command
C32_Witness ==
  /\ TcDone /\ tc.command = PCD_AUTHENT /\ tc.res.polls = 2
  /\ TcLog[11] = MFRC522_WriteRegister(MFRC522_REG_COMMAND, PCD_AUTHENT)
  /\ TcLog[12].reg = MFRC522_REG_COMM_IRQ /\ TcLog[13].reg = MFRC522_REG_COMM_IRQ

\* C33: on every path through MFRC522_ToCard and for every command the
\* StartSend bit 0x80 of the bit-framing register is cleared after the last
\* poll and before the return, so that the bit is clear on every return
\* (the chip keeping the written value).
C33_StartSendCleared ==
  TcDone =>
    /\ Len(TcLog) >= LastPollAt + 2
    /\ TcLog[LastPollAt + 1].op = "read"
    /\ TcLog[LastPollAt + 1].reg = MFRC522_REG_BIT_FRAMING
    /\ TcLog[LastPollAt + 2].op = "write"
    /\ TcLog[LastPollAt + 2].reg = MFRC522_REG_BIT_FRAMING
    /\ TcLog[LastPollAt + 2].val = TcLog[LastPollAt + 1].val % 128
    /\ \A k \in WritesTo(MFRC522_REG_BIT_FRAMING) :
         k > LastPollAt + 2 => TcLog[k].val \div 128 = 0
    /\ RegAfter(TcLog, MFRC522_REG_BIT_FRAMING, tc.before.bitFraming) \div 128 = 0

\* C33 witness: a transceive used up its poll budget, StartSend was read
\* as set after the last poll and written back clear
C33_Witness ==
  /\ TcDone /\ tc.command = PCD_TRANSCEIVE /\ tc.res.polls = 2000
  /\ tc.res.i = 0 /\ tc.res.status = MI_ERR /\ tc.before.bitFraming = 7
  /\ TcLog[LastPollAt + 1].val = 135
  /\ TcLog[Len(TcLog)] = MFRC522_WriteRegister(MFRC522_REG_BIT_FRAMING, 7)

(***************************************************************************)
(* Properties of MFRC522_CalculateCRC (checked under SpecCrc).             *)
(***************************************************************************)
CrcDone == tc.pc = "done"
\* the last 2 bytes of the frame of the k-th MFRC522_ToCard call
FrameTail(k) ==
  LET sent == tc.out.calls[k].sent
  IN  <<sent[Len(sent) - 1], sent[Len(sent)]>>

\* C23: MFRC522_CalculateCRC makes at least 1 and at most 255 reads of the
\* divider-interrupt register and stops at the first read that shows the
\* CRC-done bit; exhausted or not it reads the result register pair, and
\* every calling operation transmits its frame ending with those 2 bytes.
C23_CrcTerminates ==
  CrcDone =>
    /\ Len(tc.out.crcs) >= 1
    /\ \A k \in 1..Len(tc.out.crcs) :
         /\ tc.out.crcs[k].polls \in 1..255
         /\ tc.out.crcs[k].polls =
              (IF tc.crc.quiet + 1 <= 255 THEN tc.crc.quiet + 1 ELSE 255)
         /\ tc.out.crcs[k].out = <<tc.crc.lo, tc.crc.hi>>
    /\ tc.op # "CalculateCRC" =>
         /\ Len(tc.out.calls) = Len(tc.out.crcs)
         /\ \A k \in 1..Len(tc.out.calls) :
              FrameTail(k) = <<tc.crc.lo, tc.crc.hi>>

\* C23 witness: a write whose two CRC calculations both ran out of reads
\* without the CRC-done bit, and whose two frames were sent all the same
C23_Witness ==
  /\ CrcDone /\ tc.op = "Write" /\ tc.crc.quiet > 255
  /\ Len(tc.out.calls) = 2
  /\ tc.out.crcs[2].polls = 255
  /\ FrameTail(2) = <<tc.crc.lo, tc.crc.hi>>

(***************************************************************************)
(* Properties of the register-level operations (checked under SpecRegs).   *)
(***************************************************************************)
RegsDone(op) == tc.pc = "done" /\ tc.op = op
Log == tc.out.log
\* the accesses of the log from index k on
LogFrom(k) == SubSeq(Log, k, Len(Log))
\* the prescaler register read back the value written to it
ProbeMatches == tc.prescalerRead = 62
\* the TX control register after the call
TxControlAfter == RegAfter(Log, MFRC522_REG_TX_CONTROL, tc.txControl)

\* C24: MFRC522_Setup reads the prescaler register back right after its
\* first write of 0x3E to it; on a mismatch it returns -1 (and so does
\* MFRC522_Init) with no further register access and the antenna left
\* alone; on a match it writes the whole register program, calls
\* MFRC522_AntennaOn last and returns 0.
C24_SetupProbesFirst ==
  RegsDone("Init") =>
    /\ Log[1] = MFRC522_WriteRegister(MFRC522_REG_COMMAND, PCD_RESETPHASE)
    /\ Log[2] = MFRC522_WriteRegister(MFRC522_REG_T_PRESCALER, 62)
    /\ Log[3] = MFRC522_ReadRegister(MFRC522_REG_T_PRESCALER, tc.prescalerRead)
    /\ ~ProbeMatches =>
         /\ tc.out.ret = -1
         /\ Len(Log) = 3
         /\ TxControlAfter = tc.txControl
    /\ ProbeMatches =>
         /\ tc.out.ret = 0
         /\ RegAfter(Log, MFRC522_REG_T_MODE, 0) = 141
         /\ RegAfter(Log, MFRC522_REG_T_PRESCALER, 0) = 62
         /\ RegAfter(Log, MFRC522_REG_T_RELOAD_L, 0) = 30
         /\ RegAfter(Log, MFRC522_REG_T_RELOAD_H, 1) = 0
         /\ RegAfter(Log, MFRC522_REG_TX_AUTO, 0) = 64
         /\ RegAfter(Log, MFRC522_REG_MODE, 0) = 61
         /\ tc.Type = TypeA =>
              /\ RegAfter(Log, MFRC522_REG_RX_SELL, 0) = 134
              /\ RegAfter(Log, MFRC522_REG_RF_CFG, 0) = 127
              /\ RegAfter(Log, MFRC522_REG_STATUS2, tc.status2)
                   = BitClear(tc.status2, 8)
         /\ \E k \in 4..Len(Log) :
              /\ LogFrom(k) = MFRC522_AntennaOn(tc.txControl)
              /\ \A m \in 1..(k - 1) : Log[m].reg # MFRC522_REG_TX_CONTROL

\* C24 witness: the read-back differed from 0x3E only in the top bit, and
\* the call returned -1 after its third bus access
C24_Witness ==
  /\ RegsDone("Init") /\ tc.prescalerRead = 190
  /\ tc.out.ret = -1 /\ Len(Log) = 3

\* the request and the anti-collision entries of MFRC522_Check's log
CheckRequest == Log[3]
CheckAnticoll == Log[4]

C28_AntennaBits ==
  /\ RegsDone("AntennaOn") =>
       /\ BitAnd(TxControlAfter, 3) = 3
       /\ BitAnd(TxControlAfter, 252) = BitAnd(tc.txControl, 252)
       /\ BitAnd(tc.txControl, 3) = 3 =>
            \A k \in DOMAIN Log : Log[k].op # "write"
  /\ RegsDone("AntennaOff") =>
       /\ BitAnd(TxControlAfter, 3) = 0
       /\ BitAnd(TxControlAfter, 252) = BitAnd(tc.txControl, 252)

(***************************************************************************)
(* Properties of the read-modify-write operations (checked under SpecRmw). *)
(***************************************************************************)
RmwDone == \A i \in RmwCallers : tc.p[i].pc = "done"
\* the change of caller i is in the register value v
ChangeHeld(i, v) ==
  IF tc.p[i].op = "Set" THEN BitAnd(v, tc.p[i].mask) = tc.p[i].mask
  ELSE BitAnd(v, tc.p[i].mask) = 0
\* the bits of v that neither caller's mask covers
Untouched(v) == BitAnd(v, 255 - tc.p[1].mask - tc.p[2].mask)

\* C30: MFRC522_SetBitMask and MFRC522_ClearBitMask are a read followed by
\* a write, so two unserialized callers on the same register can lose an
\* update (the witness); when the calls are serialized the register holds
\* both changes afterwards, its other bits are as before, and every other
\* register is unchanged.
C30_SerializedKeepsBoth ==
  (RmwDone /\ tc.serial) =>
    /\ \A i \in RmwCallers : ChangeHeld(i, tc.regs[RmwTarget])
    /\ Untouched(tc.regs[RmwTarget]) = Untouched(tc.before)
    /\ tc.regs[RmwOther] = 85

\* C30 witness: both unserialized calls have returned, the second caller's
\* change is in the register and the first caller's bit set is lost
C30_Witness ==
  /\ RmwDone /\ ~tc.serial
  /\ tc.p[1].op = "Set" /\ tc.before = 3
  /\ ~ChangeHeld(1, tc.regs[RmwTarget])
  /\ ChangeHeld(2, tc.regs[RmwTarget])

(***************************************************************************)
(* Properties of the bus exchange (checked under SpecBus).                 *)
(***************************************************************************)
ChipAddresses == 0..63
\* a finished access to a register the chip has
BusDone == tc.pc = "done" /\ tc.addr \in ChipAddresses
AddressByte == tc.out[1].tx[1]

\* C31: every register access is exactly one 2-byte duplex exchange; for
\* every register address 0x00..0x3F its first byte is the address shifted
\* left by one bit with bit 0 clear, bit 7 clear for a write and set for a
\* read, so distinct addresses give distinct address bytes and the address
\* byte of a read never equals that of a write.
C31_AddressFraming ==
  BusDone =>
    /\ Len(tc.out) = 1 /\ tc.out[1].len = 2 /\ Len(tc.out[1].tx) = 2
    /\ AddressByte % 2 = 0
    /\ (AddressByte \div 2) % 64 = tc.addr
    /\ (AddressByte \div 128 = 1) <=> (tc.op = "read")
    /\ AddressByte \in 0..255
    /\ \A a \in ChipAddresses :
         /\ (a # tc.addr /\ tc.op = "write") =>
              MFRC522_HAL_write(a, tc.val)[1].tx[1] # AddressByte
         /\ (a # tc.addr /\ tc.op = "read") =>
              MFRC522_HAL_read(a)[1].tx[1] # AddressByte
         /\ tc.op = "read" => MFRC522_HAL_write(a, tc.val)[1].tx[1] # AddressByte
         /\ tc.op = "write" => MFRC522_HAL_read(a)[1].tx[1] # AddressByte

\* C31 witness: register 0x3F was read with the address byte 0xFE
C31_Witness ==
  /\ BusDone /\ tc.op = "read" /\ tc.addr = 63
  /\ tc.out[1].tx = <<254, 255>>

(***************************************************************************)
(* Properties of the card protocol operations (checked under SpecProto).   *)
(***************************************************************************)
PrDone(op) == pr.pc = "done" /\ pr.op = op
\* the MFRC522_ToCard calls of the finished operation, and the last of them
Calls == pr.out.calls
LastCall == Calls[Len(Calls)]

\* phase k of the write was made and acknowledged: its transceive returned
\* MI_OK with exactly 4 bits whose low nibble is 0xA
PhaseAcked(k) ==
  /\ Len(Calls) >= k
  /\ Calls[k].status = 0
  /\ Calls[k].backLen = 4
  /\ Calls[k].backData[1] % 16 = 10

\* C1 (as claimed): MFRC522_Write returns MI_OK if and only if the command
\* phase and the data phase were both acknowledged; every NAK, timeout or
\* chip error in either phase gives a return value other than MI_OK.
C1_WriteOkIffBothAcked ==
  PrDone("Write") => (pr.out.ret = 0 <=> (PhaseAcked(1) /\ PhaseAcked(2)))

\* the frame sent in the k-th transaction of the operation
SentIn(k) == Calls[k].sent

\* C35: in MFRC522_Write the 18-byte data frame (the 16 data bytes and
\* their 2 CRC bytes) is sent only after the command phase returned MI_OK
\* with a 4-bit reply whose low nibble is 0xA; when the command phase fails
\* in any way the call made exactly one transceive, the 4-byte command
\* frame, and one CRC computation, so that no byte of the block was sent.
C35_DataOnlyAfterAck ==
  PrDone("Write") =>
    /\ Len(Calls) \in {1, 2}
    /\ SentIn(1) = <<PICC_WRITE, pr.blockAddr>> \o pr.out.crcs[1].out
    /\ Len(Calls) = 2 =>
         /\ PhaseAcked(1)
         /\ Calls[2].command = PCD_TRANSCEIVE
         /\ SentIn(2) = pr.data \o pr.out.crcs[2].out
    /\ ~PhaseAcked(1) =>
         /\ Len(Calls) = 1
         /\ Len(pr.out.crcs) = 1

\* a write whose command phase was acknowledged has sent the block
C35_Witness ==
  /\ PrDone("Write") /\ PhaseAcked(1) /\ Len(Calls) = 2
  /\ Len(SentIn(2)) = 18 /\ pr.data[1] = 53 /\ SentIn(2)[1] = 53

\* the size in bytes of the buffer the operation passes to MFRC522_ToCard
\* as backData: buff[4], the caller's CardID[5] and tagType[16], buff[18],
\* buffer[32]
RecvBufferSize(op) ==
  IF op = "Halt" THEN 4
  ELSE IF op = "Anticoll" THEN 5
  ELSE IF op = "Request" THEN 16
  ELSE IF op = "Write" THEN 18
  ELSE 32

\* C36 (as claimed): for every card protocol operation and every FIFO level
\* the chip reports, the number of bytes MFRC522_ToCard stores into the
\* receive buffer is at most the size of the buffer the operation passes:
\* 4 bytes in MFRC522_Halt, 5 for the card id of MFRC522_Anticoll, 16 for
\* the tag type of MFRC522_Request, 18 in MFRC522_Write, 32 in
\* MFRC522_SelectTag.
C36_StoresWithinBuffer ==
  (pr.pc = "done" /\ pr.op \in {"Halt", "Anticoll", "Request", "Write", "SelectTag"}) =>
    \A k \in 1..Len(Calls) : Calls[k].fifoReads <= RecvBufferSize(pr.op)

\* C37 (as claimed): MFRC522_Anticoll returns MI_OK only if the card's reply
\* was a complete 5-byte (40-bit) identifier; when the transceive succeeds
\* with fewer than 5 received bytes, the bytes left in the buffer from the
\* command frame or from an earlier call do not satisfy the checksum test
\* and the operation returns an error.
C37_AnticollNeedsFullReply ==
  (PrDone("Anticoll") /\ pr.out.ret = MI_OK) =>
    /\ Calls[1].fifoReads = 5
    /\ Calls[1].backLen = 40

\* the value an operation returns when its transaction was a chip error
RetOnChipError(op) == IF op = "SelectTag" THEN 0 ELSE -2

\* C7 (as claimed): an operation whose MFRC522_ToCard call returned
\* MI_NOTAGERR returns a value different from the one it returns when that
\* call returned MI_ERR.
C7_NoTagKeptApart ==
  (pr.pc = "done" /\ LastCall.status = -1) => pr.out.ret # RetOnChipError(pr.op)

\* C7 (amended): MFRC522_Request and MFRC522_Anticoll return a failed
\* transaction's status unchanged; MFRC522_SelectTag returns 0 and
\* MFRC522_Auth and MFRC522_Read return MI_ERR for MI_NOTAGERR and MI_ERR
\* alike; MFRC522_Write returns the low nibble of buff[0] when recvBits is 4
\* and MI_ERR otherwise, whichever of the two the transaction returned.
C7_OnlyRequestAnticollKeepApart ==
  (pr.pc = "done" /\ LastCall.status # 0) =>
    /\ pr.op \in {"Request", "Anticoll"} => pr.out.ret = LastCall.status
    /\ pr.op = "SelectTag" => pr.out.ret = 0
    /\ pr.op \in {"Auth", "Read"} => pr.out.ret = -2
    /\ pr.op = "Write" =>
         pr.out.ret = (IF LastCall.backLen = 4 THEN LastCall.backData[1] % 16
                       ELSE -2)

\* C7 witness: a request whose transaction ended in a timer expiry returned
\* MI_NOTAGERR
C7_Witness ==
  /\ PrDone("Request") /\ LastCall.status = -1 /\ TimerSeen(LastCall.n)
  /\ pr.out.ret = -1

\* C8 (as claimed): MFRC522_Auth returns MI_OK exactly when its
\* authenticate transaction returned MI_OK and bit 3 of the status-2
\* register read afterwards is set; in every other case, a timer expiry
\* during the authenticate command included, it returns MI_ERR.
C8_AuthOkIffCryptoOn ==
  PrDone("Auth") =>
    /\ pr.out.ret = 0 <=>
         (/\ LastCall.status = 0 /\ pr.out.status2Read
          /\ (pr.out.status2 \div 8) % 2 = 1)
    /\ pr.out.ret # 0 => pr.out.ret = -2
    /\ TimerSeen(LastCall.n) => pr.out.ret = -2

\* C10 (as claimed): for addr == 0 or addr % 4 == 3 MFRC522_Write returns
\* an error and makes no MFRC522_ToCard call.
C10_WriteRefusesProtected ==
  (PrDone("Write") /\ (pr.blockAddr = 0 \/ pr.blockAddr % 4 = 3)) =>
    (pr.out.ret # 0 /\ Len(Calls) = 0)

\* C10 (amended): MFRC522_Write makes no address check: for every block
\* address, 0 and the sector trailers included, it sends the command frame
\* A0 addr crcL crcH with MFRC522_ToCard, and it returns MI_OK when the
\* card acknowledges both phases.
C10_WriteChecksNoAddress ==
  PrDone("Write") =>
    /\ Len(Calls) >= 1
    /\ Calls[1].command = 12
    /\ Len(Calls[1].sent) = 4
    /\ Calls[1].sent[1] = 160 /\ Calls[1].sent[2] = pr.blockAddr
    /\ (PhaseAcked(1) /\ PhaseAcked(2)) => pr.out.ret = 0

\* C10 witness: a write to sector trailer 3 went through both phases and
\* returned MI_OK
C10_Witness ==
  /\ PrDone("Write") /\ pr.blockAddr = 3
  /\ Len(Calls) = 2 /\ PhaseAcked(1) /\ PhaseAcked(2) /\ pr.out.ret = 0

\* the transaction r read a reply of exactly 4 bits from the FIFO
GotFourBits(r) == r.fifoReads > 0 /\ r.backLen = 4

\* C13 (as claimed): when a phase of MFRC522_Write fails, the return value
\* is the low nibble of the reply if the transaction of that phase received
\* a 4-bit reply, and MI_ERR otherwise.
C13_WriteErrorFromOwnPhase ==
  (PrDone("Write") /\ WriteRefused(LastCall)) =>
    pr.out.ret = (IF GotFourBits(LastCall) THEN LastCall.backData[1] % 16
                  ELSE -2)

\* the select transaction succeeded: status MI_OK and exactly 24 bits
SelectAnswered == LastCall.status = 0 /\ LastCall.backLen = 24

\* C14: MFRC522_SelectTag returns the first received byte when its
\* transceive returned MI_OK with exactly 24 bits, and 0 in every other
\* case, a bit count other than 24 with status MI_OK included.
C14_SelectTagSize ==
  PrDone("SelectTag") =>
    pr.out.ret = (IF SelectAnswered THEN LastCall.backData[1] ELSE 0)

\* C14 witness: a select whose transceive returned MI_OK with 16 bits
\* returned 0
C14_Witness ==
  /\ PrDone("SelectTag") /\ LastCall.status = 0 /\ LastCall.backLen = 16
  /\ LastCall.fifoReads = 2 /\ pr.out.ret = 0

\* C15 (as claimed): MFRC522_SelectTag returns 0 exactly when the select
\* transaction failed.
C15_SelectTagTellsSuccess ==
  PrDone("SelectTag") => (pr.out.ret = 0 <=> ~SelectAnswered)

\* C16: MFRC522_Request writes 0x07 to the bit-framing register, sends the
\* request mode as a 1-byte frame with the transceive command, returns
\* MI_OK exactly when the transceive returned MI_OK with 16 bits, MI_ERR
\* for MI_OK with another bit count, and a non-OK status unchanged.
C16_RequestShortFrame ==
  PrDone("Request") =>
    /\ pr.out.bitFraming = 7
    /\ Len(Calls) = 1
    /\ LastCall.command = 12
    /\ LastCall.sent = <<38>>
    /\ pr.out.ret = 0 <=> (LastCall.status = 0 /\ LastCall.backLen = 16)
    /\ (LastCall.status = 0 /\ LastCall.backLen # 16) => pr.out.ret = -2
    /\ LastCall.status # 0 => pr.out.ret = LastCall.status

\* C16 witness: a request answered with MI_OK and 24 bits returned MI_ERR
C16_Witness ==
  /\ PrDone("Request") /\ LastCall.status = 0 /\ LastCall.backLen = 24
  /\ pr.out.ret = -2 /\ pr.out.bitFraming = 7

\* the anti-collision transceive accepted a reply of 5 full bytes
FiveBytesAccepted ==
  LastCall.status = 0 /\ LastCall.backLen = 40 /\ LastCall.fifoReads = 5

\* C17: for a 5-byte reply accepted by the transceive MFRC522_Anticoll
\* returns MI_OK exactly when the 5th byte is the XOR of the first 4, and
\* MI_ERR otherwise; a reply that differs from a passing one in a single
\* bit returns MI_ERR; the received bytes are left in the caller's buffer.
C17_AnticollChecksum ==
  (PrDone("Anticoll") /\ FiveBytesAccepted) =>
    /\ pr.out.ret = (IF pr.out.buf[5] = Checksum(pr.out.buf) THEN 0 ELSE -2)
    /\ pr.out.buf \in PassingReplies => pr.out.ret = 0
    /\ pr.out.buf \in FlippedReplies => pr.out.ret = -2
    /\ pr.out.buf = LastCall.backData

\* C17 witness: the reply DE AD BE EB 22, one bit of the 4th byte flipped,
\* returned MI_ERR and is in the caller's buffer
C17_Witness ==
  /\ PrDone("Anticoll") /\ FiveBytesAccepted
  /\ pr.out.buf = <<222, 173, 190, 235, 34>> /\ pr.out.ret = -2

\* the read transaction succeeded: status MI_OK and exactly 144 bits
ReadAnswered == LastCall.status = 0 /\ LastCall.backLen = 144

\* C18: MFRC522_Read returns 144 exactly when its transceive returned
\* MI_OK with 144 bits, with the 16 bytes of the block in recvData[0..15],
\* and MI_ERR in every other case; the caller's test ret <= 0 is true for
\* exactly the failures.
C18_ReadLength ==
  PrDone("Read") =>
    /\ pr.out.ret = (IF ReadAnswered THEN 144 ELSE -2)
    /\ ReadAnswered => (LastCall.fifoReads = 16 /\ pr.out.buf = BlockData)
    /\ pr.out.ret <= 0 <=> ~ReadAnswered

\* C18 witness: a read answered with 18 bytes returned 144 and the block
C18_Witness ==
  /\ PrDone("Read") /\ ReadAnswered /\ pr.out.ret = 144
  /\ pr.out.buf = BlockData

\* the frame of call k ends with the result registers of the k-th
\* MFRC522_CalculateCRC call, low byte first, computed over the bytes
\* before them
CrcSuffixed(k) ==
  LET sent == Calls[k].sent
      n == Len(sent)
  IN  /\ Len(pr.out.crcs) >= k
      /\ n >= 3
      /\ pr.out.crcs[k].data = SubSeq(sent, 1, n - 2)
      /\ sent[n - 1] = pr.out.crcs[k].resultL
      /\ sent[n] = pr.out.crcs[k].resultM

\* C19 (as claimed): the select, authenticate, read, write and halt frames
\* all end with the CRC of their preceding bytes, low byte first.
C19_EveryFrameCrcSuffixed ==
  (pr.pc = "done" /\ pr.op \in {"SelectTag", "Auth", "Read", "Write", "Halt"}) =>
    \A k \in 1..Len(Calls) : CrcSuffixed(k)

\* C19 (amended): the select, read, write (both phases) and halt frames end
\* with the CRC of their preceding bytes, low byte first; the authenticate
\* frame is the 12 bytes mode, block, key, UID with no CRC computed.
C19_FramesCrcSuffixedButAuth ==
  /\ (pr.pc = "done" /\ pr.op \in {"SelectTag", "Read", "Write", "Halt"}) =>
        /\ Len(pr.out.crcs) = Len(Calls)
        /\ \A k \in 1..Len(Calls) : CrcSuffixed(k)
  /\ PrDone("Auth") =>
        /\ Len(pr.out.crcs) = 0
        /\ Len(Calls) = 1
        /\ LastCall.sent = <<96, pr.blockAddr>> \o DefaultKey \o SubSeq(CardUid, 1, 4)

\* C19 witness: a write whose two frames carry the results of two
\* different CRC computations
C19_Witness ==
  /\ PrDone("Write") /\ Len(Calls) = 2
  /\ Calls[1].sent = <<160, pr.blockAddr, 18, 52>>
  /\ Len(Calls[2].sent) = 18
  /\ Calls[2].sent[17] = 205 /\ Calls[2].sent[18] = 7

(***************************************************************************)
(* Properties of the interactive session (checked under SpecSession).      *)
(***************************************************************************)
\* C9: every MFRC522_Read and MFRC522_Write of the session comes after an
\* MFRC522_Auth that returned MI_OK for a block of the same sector, with
\* nothing but successful reads and writes in between; after a failed
\* authenticate no read or write is made before a new successful one.
C9_AccessOnlyAfterAuth ==
  ev.op \in {"Read", "Write"} =>
    (ev.authBefore.valid /\ ev.authBefore.sector = ev.block \div 4)

\* C9 witness: the dump has read block 5 under the authentication of
\* sector 1 after the dump of sector 0 had failed
C9_Witness ==
  /\ ev.op = "Read" /\ ev.block = 5 /\ ev.ret = 144
  /\ s.cmd = "dump" /\ s.ret_int < 0
  /\ ev.authBefore.valid /\ ev.authBefore.sector = 1

\* a manufacturer block or sector trailer of the card
ProtectedAddr(b) == b \in 0..(CardBlocks - 1) /\ (b = 0 \/ b % 4 = 3)

\* C11: a write or clean command on a protected block is rejected before
\* any bus transaction: from the reading of the command to its end the
\* driver is not called
C11_ProtectedRejectedOffBus ==
  [][(s.cmd \in {"clean", "write"} /\ ProtectedAddr(s.block)) => ev' = ev]_vars

\* C12: the write and clean commands never call MFRC522_Write with a
\* protected block address 0..63
C12_NoProtectedWrite ==
  ev.op = "Write" => ~ProtectedAddr(ev.block)

\* a clean or write on the sector trailer 3 was authenticated and then
\* rejected by the control-block test: scan_loop has returned -1
C12_Witness ==
  /\ ev.op = "Auth" /\ ev.block = 3 /\ ev.ret = MI_OK
  /\ s.pc = "final_halt"

\* the last driver call was an MFRC522_Init that reported failure
InitFailed == ev.op = "Init" /\ ev.ret < 0

\* C25: whenever MFRC522_Init reports failure, at program start or at the
\* re-initialization after a scan command, the program has terminated with a
\* nonzero exit code (and so issues no further card command); it terminates
\* with exit code 0 only when MFRC522_Init did not fail.
C25_InitFailureEndsProgram ==
  /\ InitFailed => (s.pc = "exited" /\ s.exit # 0)
  /\ (s.pc = "exited" /\ s.exit = 0) => ~InitFailed

\* C40 (as claimed): at every point of the session at most one bus device
\* handle is open: every open made by MFRC522_HAL_init is matched by a close
\* before the next open, for any number of scan commands, each of which ends
\* with a re-initialization through MFRC522_Init.
C40_OneHandleOpen ==
  s.pc # "exited" => s.handles <= 1

\* control is inside scan_loop or one of the MFRC522_Debug_* functions
InSubSession ==
  s.pc \in {"sub", "sub_halt", "ds_auth", "ds_read", "cl_auth", "cl_write",
            "wr_auth", "wr_write"}

\* C26: MFRC522_Anticoll is called only directly after an MFRC522_Request
\* that returned MI_OK, MFRC522_SelectTag only directly after an
\* MFRC522_Anticoll that returned MI_OK, the sub-session is entered only
\* after a select with a nonzero result, and authenticate, read and write
\* are made only inside a sub-session: after its end by halt or error not
\* before a new successful request, anti-collision and select.
C26_SessionOrder ==
  /\ s.pc = "anticoll" => (ev.op = "Request" /\ ev.ret = MI_OK)
  /\ s.pc = "select" => (ev.op = "Anticoll" /\ ev.ret = MI_OK)
  /\ InSubSession => auth.selected
  /\ (s.pc = "sub" /\ ev.op = "SelectTag") => ev.ret # 0
  /\ ev.op \in {"Auth", "Read", "Write"} => ev.authBefore.selected
  /\ s.pc \in {"final_halt", "reinit", "prompt", "request", "halt"} =>
       (ev.op = "Halt" => ~auth.selected)

\* C26 witness: a sub-session, entered after a successful select, has
\* authenticated block 4 for a read
C26_Witness ==
  /\ ev.op = "Auth" /\ ev.authBefore.selected
  /\ s.pc = "ds_read" /\ s.cmd = "read" /\ s.block = 4

\* the last driver call reported a chip or frame error
CallFailed ==
  \/ ev.op \in {"Request", "Anticoll", "Read", "Write"} /\ ev.ret = MI_ERR
  \/ ev.op = "SelectTag" /\ ev.ret = 0

\* C27: the scan loop goes round again (its MFRC522_Halt, then a new
\* request) only after a request or anti-collision that returned
\* MI_NOTAGERR; after a request, anti-collision, read or write that
\* returned MI_ERR, or a failed select, the running command is left with no
\* further card transaction but its closing halt.
C27_ErrorAbortsCommand ==
  /\ s.pc = "halt" =>
       (ev.op \in {"Request", "Anticoll"} /\ ev.ret = MI_NOTAGERR)
  /\ CallFailed => s.pc = "final_halt"

(***************************************************************************)
(* Properties of the pass from discovery to the first read (checked under  *)
(* SpecPass).                                                              *)
(***************************************************************************)
\* the only MFRC522_ToCard call of the k-th driver call of the pass
PassCall(k) == pr.log[k].calls[1]
\* the CRC bytes, low then high, of the k-th driver call of the pass
PassCrc(k) == <<pr.log[k].crcs[1].resultL, pr.log[k].crcs[1].resultM>>

\* C20: when the card DE AD BE EF (checksum 0x22) answers every step, the
\* five driver calls each make one MFRC522_ToCard call, and these load,
\* in this order, [request mode], [93 20], [93 70 DE AD BE EF 22 crcL crcH],
\* [60 block FF FF FF FF FF FF DE AD BE EF] and [30 block crcL crcH]; the
\* 4th is issued with the authenticate command and the others with the
\* transceive command, and the read returns the card's 16 bytes.
C20_PassFrames ==
  pr.pc = "done" =>
    /\ Len(pr.log) = 5
    /\ \A k \in 1..5 : Len(pr.log[k].calls) = 1
    /\ PassCall(1).sent = <<pr.reqMode>>
    /\ PassCall(2).sent = <<147, 32>>
    /\ PassCall(3).sent = <<147, 112, 222, 173, 190, 239, 34>> \o PassCrc(3)
    /\ PassCall(4).sent = <<96, pr.block, 255, 255, 255, 255, 255, 255,
                            222, 173, 190, 239>>
    /\ PassCall(5).sent = <<48, pr.block>> \o PassCrc(5)
    /\ \A k \in {1, 2, 3, 5} : PassCall(k).command = 12
    /\ PassCall(4).command = 14
    /\ pr.log[5].buf = pr.card.data

\* C20 witness: the pass on block 4 of a card holding the block pattern,
\* every step answered, the read returning 144
C20_Witness ==
  /\ pr.pc = "done" /\ pr.block = 4 /\ pr.card.data = BlockData
  /\ pr.log[5].ret = 144 /\ pr.log[5].buf = BlockData
  /\ PassCall(5).sent = <<48, 4, 18, 52>>

====
